---- MODULE Spec2Model ----
(***************************************************************************)
(* A model of the battletris battle engine: the board and piece model     *)
(* (battle/game/data.rs), the single-side game state with its move        *)
(* generator (battle/game.rs) and the match driver (battle.rs).           *)
(***************************************************************************)
EXTENDS Integers, Sequences, FiniteSets, TLC

(***************************************************************************)
(* Board and piece model: battle/game/data.rs                              *)
(***************************************************************************)

\* enum Piece
Piece == {"I", "O", "T", "L", "J", "S", "Z"}

\* enum Rotation
Rotation == {"North", "East", "South", "West"}

\* enum Spin
Spin == {"None", "Mini", "Full"}

\* enum CellColor: Piece(p) is written as the piece letter p
CellColor == Piece \cup {"Garbage", "Empty"}

\* the grid is field: [[CellColor; 10]; 40]
BoardWidth == 10
BoardHeight == 40

\* Piece::cells: the footprint in North rotation
Piece_cells(piece) ==
    CASE piece = "I" -> << <<-1, 0>>, <<0, 0>>, <<1, 0>>, <<2, 0>> >>
      [] piece = "O" -> << <<0, 0>>, <<1, 0>>, <<0, 1>>, <<1, 1>> >>
      [] piece = "T" -> << <<-1, 0>>, <<0, 0>>, <<1, 0>>, <<0, 1>> >>
      [] piece = "L" -> << <<-1, 0>>, <<0, 0>>, <<1, 0>>, <<1, 1>> >>
      [] piece = "J" -> << <<-1, 0>>, <<0, 0>>, <<1, 0>>, <<-1, 1>> >>
      [] piece = "S" -> << <<-1, 0>>, <<0, 0>>, <<0, 1>>, <<1, 1>> >>
      [] piece = "Z" -> << <<-1, 1>>, <<0, 1>>, <<0, 0>>, <<1, 0>> >>

\* Rotation::rotate
Rotation_rotate(rotation, x, y) ==
    CASE rotation = "North" -> <<x, y>>
      [] rotation = "East" -> <<y, -x>>
      [] rotation = "South" -> <<-x, -y>>
      [] rotation = "West" -> <<-y, x>>

\* Rotation::cw
cw(rotation) ==
    CASE rotation = "North" -> "East"
      [] rotation = "East" -> "South"
      [] rotation = "South" -> "West"
      [] rotation = "West" -> "North"

\* Rotation::ccw
ccw(rotation) ==
    CASE rotation = "North" -> "West"
      [] rotation = "East" -> "North"
      [] rotation = "South" -> "East"
      [] rotation = "West" -> "South"

\* struct PieceLocation
PieceLocation(piece, rotation, x, y) ==
    [piece |-> piece, rotation |-> rotation, x |-> x, y |-> y]

\* the footprint of every piece in every rotation: piece.cells() mapped
\* through rotation.rotate, as PieceLocation::cells computes it
rotated_cells ==
    [piece \in Piece |-> [rotation \in Rotation |->
        [i \in 1..4 |-> Rotation_rotate(rotation, Piece_cells(piece)[i][1],
                                        Piece_cells(piece)[i][2])]]]

\* PieceLocation::cells
PieceLocation_cells(loc) ==
    LET c == rotated_cells[loc.piece][loc.rotation]
    IN  [i \in 1..4 |-> <<c[i][1] + loc.x, c[i][2] + loc.y>>]

\* Board::default
EmptyRow == [x \in 0..(BoardWidth - 1) |-> "Empty"]

Board_default == [y \in 0..(BoardHeight - 1) |-> EmptyRow]

\* a read that takes the rows above the array as empty
get_open_above(board, x, y) ==
    IF y \in 0..(BoardHeight - 1) /\ x \in 0..(BoardWidth - 1)
    THEN board[y][x] # "Empty"
    ELSE ~(x \in 0..(BoardWidth - 1) /\ y >= BoardHeight)

\* Board::get: a read that falls outside the array (either index, on either
\* side: a negative i32 cast to usize is out of range too) yields None, and
\* None != Some(Empty)
get(board, x, y) ==
    IF y \in 0..(BoardHeight - 1) /\ x \in 0..(BoardWidth - 1)
    THEN board[y][x] # "Empty"
    ELSE TRUE

\* PieceLocation::obstructed: some cell of the footprint reads as occupied
obstructed(loc, board) ==
    LET c == rotated_cells[loc.piece][loc.rotation]
    IN  \E i \in 1..4 : get(board, c[i][1] + loc.x, c[i][2] + loc.y)

\* fn offsets: the kick offset table
offsets(piece, rotation) ==
    IF piece = "O" THEN
        CASE rotation = "North" -> << <<0, 0>> >>
          [] rotation = "East" -> << <<0, -1>> >>
          [] rotation = "South" -> << <<-1, -1>> >>
          [] rotation = "West" -> << <<-1, 0>> >>
    ELSE IF piece = "I" THEN
        CASE rotation = "North" -> << <<0, 0>>, <<-1, 0>>, <<2, 0>>, <<-1, 0>>, <<2, 0>> >>
          [] rotation = "East" -> << <<-1, 0>>, <<0, 0>>, <<0, 0>>, <<0, 1>>, <<0, -2>> >>
          [] rotation = "South" -> << <<-1, 1>>, <<1, 1>>, <<-2, 1>>, <<1, 0>>, <<-2, 0>> >>
          [] rotation = "West" -> << <<0, 1>>, <<0, 1>>, <<0, 1>>, <<0, -1>>, <<0, 2>> >>
    ELSE
        CASE rotation = "North" -> << <<0, 0>>, <<0, 0>>, <<0, 0>>, <<0, 0>>, <<0, 0>> >>
          [] rotation = "East" -> << <<0, 0>>, <<1, 0>>, <<1, -1>>, <<0, 2>>, <<1, 2>> >>
          [] rotation = "South" -> << <<0, 0>>, <<0, 0>>, <<0, 0>>, <<0, 0>>, <<0, 0>> >>
          [] rotation = "West" -> << <<0, 0>>, <<-1, 0>>, <<-1, -1>>, <<0, 2>>, <<-1, 2>> >>

\* PieceLocation::rotate: the kick candidates for the target rotation, in order
rotate(loc, rot) ==
    LET from == offsets(loc.piece, loc.rotation)
        to == offsets(loc.piece, rot)
    IN  [i \in 1..Len(from) |->
            PieceLocation(loc.piece, rot,
                          loc.x + from[i][1] - to[i][1],
                          loc.y + from[i][2] - to[i][2])]

\* canonical_form with the rotation folded but the centre left where it is
canonical_form_rotation_only(loc) ==
    IF loc.piece \in {"T", "J", "L"} THEN loc
    ELSE IF loc.piece = "O" THEN [loc EXCEPT !.rotation = "North"]
    ELSE IF loc.rotation \in {"North", "South"} THEN [loc EXCEPT !.rotation = "North"]
    ELSE [loc EXCEPT !.rotation = "East"]

\* PieceLocation::canonical_form
canonical_form(loc) ==
    IF loc.piece \in {"T", "J", "L"} THEN loc
    ELSE IF loc.piece = "O" THEN
        CASE loc.rotation = "North" -> loc
          [] loc.rotation = "East" -> [loc EXCEPT !.rotation = "North", !.y = loc.y - 1]
          [] loc.rotation = "South" ->
                [loc EXCEPT !.rotation = "North", !.x = loc.x - 1, !.y = loc.y - 1]
          [] loc.rotation = "West" -> [loc EXCEPT !.rotation = "North", !.x = loc.x - 1]
    ELSE IF loc.piece \in {"S", "Z"} THEN
        CASE loc.rotation \in {"North", "East"} -> loc
          [] loc.rotation = "South" -> [loc EXCEPT !.rotation = "North", !.y = loc.y - 1]
          [] loc.rotation = "West" -> [loc EXCEPT !.rotation = "East", !.x = loc.x - 1]
    ELSE
        CASE loc.rotation \in {"North", "East"} -> loc
          [] loc.rotation = "South" -> [loc EXCEPT !.rotation = "North", !.x = loc.x - 1]
          [] loc.rotation = "West" -> [loc EXCEPT !.rotation = "East", !.y = loc.y + 1]

\* a row with no Empty cell (the test of the compaction loop of Board::place)
RowFull(row) == \A x \in 0..(BoardWidth - 1) : row[x] # "Empty"

\* the compaction with the kept rows left at the top of the grid: the empty
\* rows fill the bottom
place_compact_upward(kept) ==
    [board |-> [y \in 0..(BoardHeight - 1) |->
                   IF y >= BoardHeight - Len(kept)
                   THEN kept[y - (BoardHeight - Len(kept)) + 1] ELSE EmptyRow],
     cleared |-> BoardHeight - Len(kept)]

\* the compaction loop of Board::place: kept holds the rows that are not
\* full, from the bottom; they move down and empty rows fill the top
place_compact(kept) ==
    [board |-> [y \in 0..(BoardHeight - 1) |->
                   IF y < Len(kept) THEN kept[y + 1] ELSE EmptyRow],
     cleared |-> BoardHeight - Len(kept)]

\* Board::place: writes the four cells, drops every full row, moves the rows
\* above down and returns the number of rows dropped
place(board, loc) ==
    LET cells == {PieceLocation_cells(loc)[i] : i \in 1..4}
        written == [y \in 0..(BoardHeight - 1) |->
                      [x \in 0..(BoardWidth - 1) |->
                          IF <<x, y>> \in cells THEN loc.piece ELSE board[y][x]]]
    IN  place_compact(SelectSeq([i \in 1..BoardHeight |-> written[i - 1]],
                                LAMBDA r : ~RowFull(r)))

\* the write loop of Board::place indexes the array with the cells of the
\* piece: an index outside the array panics
place_panics(loc) ==
    \E i \in 1..4 :
        \/ PieceLocation_cells(loc)[i][1] \notin 0..(BoardWidth - 1)
        \/ PieceLocation_cells(loc)[i][2] \notin 0..(BoardHeight - 1)

\* Board::is_pc
is_pc(board) == board[0] = EmptyRow

\* a deposit that lays the hole columns from the bottom row upwards
Board_add_garbage_upward(board, cols) ==
    [y \in 0..(BoardHeight - 1) |->
        IF y < Len(cols)
        THEN [x \in 0..(BoardWidth - 1) |->
                 IF x = cols[y + 1] THEN "Empty" ELSE "Garbage"]
        ELSE board[y - Len(cols)]]

\* Board::add_garbage: cols are the hole columns; rows are walked from the
\* top, so field[y - len] is still the old row when it is copied
Board_add_garbage(board, cols) ==
    [y \in 0..(BoardHeight - 1) |->
        IF y < Len(cols)
        THEN [x \in 0..(BoardWidth - 1) |->
                 IF x = cols[Len(cols) - y] THEN "Empty" ELSE "Garbage"]
        ELSE board[y - Len(cols)]]

(***************************************************************************)
(* Move generator: battle/game.rs                                          *)
(***************************************************************************)

\* check_spin without the test of the piece: the corners of any piece count
check_spin_any_piece(board, loc, kick) ==
    LET corner(dx, dy) ==
            LET d == Rotation_rotate(loc.rotation, dx, dy)
            IN  IF get(board, d[1] + loc.x, d[2] + loc.y) THEN 1 ELSE 0
        mini_corners == corner(-1, 1) + corner(1, 1)
        norm_corners == corner(-1, -1) + corner(1, -1)
    IN  IF norm_corners + mini_corners < 3 THEN "None"
        ELSE IF mini_corners < 2 /\ kick # 4 THEN "Mini"
        ELSE "Full"

\* check_spin with the two pairs of corners exchanged
check_spin_swapped(board, loc, kick) ==
    IF loc.piece # "T" THEN "None"
    ELSE
        LET corner(dx, dy) ==
                LET d == Rotation_rotate(loc.rotation, dx, dy)
                IN  IF get(board, d[1] + loc.x, d[2] + loc.y) THEN 1 ELSE 0
            mini_corners == corner(-1, -1) + corner(1, -1)
            norm_corners == corner(-1, 1) + corner(1, 1)
        IN  IF norm_corners + mini_corners < 3 THEN "None"
            ELSE IF mini_corners < 2 /\ kick # 4 THEN "Mini"
            ELSE "Full"

\* fn check_spin; kick is the index (from 0) of the accepted kick candidate
check_spin(board, loc, kick) ==
    IF loc.piece # "T" THEN "None"
    ELSE
        LET corner(dx, dy) ==
                LET d == Rotation_rotate(loc.rotation, dx, dy)
                IN  IF get(board, d[1] + loc.x, d[2] + loc.y) THEN 1 ELSE 0
            mini_corners == corner(-1, 1) + corner(1, 1)
            norm_corners == corner(-1, -1) + corner(1, -1)
        IN  IF norm_corners + mini_corners < 3 THEN "None"
            ELSE IF mini_corners < 2 /\ kick # 4 THEN "Mini"
            ELSE "Full"

\* struct Cost
Cost(base, softdrop) == [base |-> base, softdrop |-> softdrop]

\* impl Ord for Cost, with its .reverse(): a > b holds when a has the smaller
\* base, or the same base and the smaller softdrop
Cost_gt(a, b) ==
    a.base < b.base \/ (a.base = b.base /\ a.softdrop < b.softdrop)

\* struct QueueMove
QueueMove(loc, spin, cost) == [loc |-> loc, spin |-> spin, cost |-> cost]

\* fn index (inside movegen): the slot of a node in the reached table
index(loc, spin) ==
    LET r == CASE loc.rotation = "North" -> 0 [] loc.rotation = "East" -> 1
               [] loc.rotation = "South" -> 2 [] loc.rotation = "West" -> 3
        s == CASE spin = "None" -> 0 [] spin = "Mini" -> 1 [] spin = "Full" -> 2
    IN  r + 4 * loc.x + 40 * s + 120 * loc.y

\* a search that tries y = 21 as well when y = 19 and y = 20 are obstructed
movegen_start_higher(board, piece) ==
    LET try[y \in 19..22] ==
            IF y = 22 THEN << >>
            ELSE IF ~obstructed(PieceLocation(piece, "North", 4, y), board)
            THEN <<PieceLocation(piece, "North", 4, y)>>
            ELSE try[y + 1]
    IN  try[19]

\* a search that starts at y = 19 without looking at the board
movegen_start_unchecked(board, piece) == <<PieceLocation(piece, "North", 4, 19)>>

\* the spawn location movegen starts from: y = 19, or y = 20 when that is
\* obstructed; << >> when both are (the early return of an empty map)
movegen_start(board, piece) ==
    LET start == PieceLocation(piece, "North", 4, 19)
        higher == [start EXCEPT !.y = start.y + 1]
    IN  IF ~obstructed(start, board) THEN <<start>>
        ELSE IF ~obstructed(higher, board) THEN <<higher>>
        ELSE << >>

\* the moves a popped node hands to reach(): left, right, cw, ccw and, when
\* it is free, down; locks tells that down is obstructed, which makes the node
\* an entry of the moves map under key, with the cost base
movegen_expand(board, mv, movement_delay, softdrop_delay) ==
    LET moved == Cost(mv.cost.base + mv.cost.softdrop + movement_delay, 0)
        shift(loc) ==
            IF obstructed(loc, board) THEN {} ELSE {QueueMove(loc, "None", moved)}
        kicked(cands, i) ==
            IF i = 0 THEN {}
            ELSE {QueueMove(cands[i], check_spin(board, cands[i], i - 1), moved)}
        first(cands) ==
            LET free[i \in 1..(Len(cands) + 1)] ==
                    IF i > Len(cands) THEN 0
                    ELSE IF ~obstructed(cands[i], board) THEN i
                    ELSE free[i + 1]
            IN  free[1]
        turn(cands) == kicked(cands, first(cands))
        drop(down, locks) ==
            [proposed |->
                 shift([mv.loc EXCEPT !.x = mv.loc.x - 1])
                     \cup shift([mv.loc EXCEPT !.x = mv.loc.x + 1])
                     \cup turn(rotate(mv.loc, cw(mv.loc.rotation)))
                     \cup turn(rotate(mv.loc, ccw(mv.loc.rotation)))
                     \cup (IF locks THEN {}
                           ELSE {QueueMove(down, "None",
                                     Cost(mv.cost.base, mv.cost.softdrop + softdrop_delay))}),
             locks |-> locks,
             key |-> IF locks THEN <<canonical_form(mv.loc), mv.spin>> ELSE << >>,
             base |-> mv.cost.base]
        lower(down) == drop(down, obstructed(down, board))
    IN  lower([mv.loc EXCEPT !.y = mv.loc.y - 1])

\* the least element of a non-empty set of numbers
Min(S) == CHOOSE b \in S : \A c \in S : b <= c

\* reached[index]: a slot of the table that was never written still holds its
\* initial Cost { base: u32::MAX, softdrop: 0 }, which every cost a search on
\* this board proposes beats; reached is kept as the function from the slots
\* written so far to their costs
movegen_beats(cost, reached, i) ==
    i \notin DOMAIN reached \/ Cost_gt(cost, reached[i])

\* One round of the search loop of movegen; st holds the reached table, the
\* heap (queue) and the moves map.  The heap pops an entry of greatest Cost,
\* that is of least (base, softdrop); the entries of that cost are popped
\* together here: none of them changes the stored cost of another, since a
\* proposal replaces a stored cost only when it is strictly better.  The loop
\* drops a popped entry whose cost is no longer the stored one (continue);
\* here such an entry leaves the queue as soon as a better cost is stored for
\* its slot, so every entry of the queue is a current one.
movegen_step(board, movement_delay, softdrop_delay, st) ==
    LET least(base) ==
            Cost(base, Min({q.cost.softdrop : q \in {r \in st.queue : r.cost.base = base}}))
        store(popped, pushed, nodes, locked) ==
            [reached |-> [i \in {index(p.loc, p.spin) : p \in pushed} |->
                             (CHOOSE p \in pushed : index(p.loc, p.spin) = i).cost]
                         @@ st.reached,
             queue |-> {q : q \in {r \in st.queue \ popped : <<r.loc, r.spin>> \notin nodes}
                                  \cup pushed},
             moves |-> [k \in {e.key : e \in locked} |->
                           Min((IF k \in DOMAIN st.moves THEN {st.moves[k]} ELSE {})
                               \cup {e.base : e \in {l \in locked : l.key = k}})]
                       @@ st.moves]
        push(popped, expanded, pushed) ==
            store(popped, pushed, {<<p.loc, p.spin>> : p \in pushed},
                  {e \in expanded : e.locks})
        reach(popped, expanded, better) ==
            push(popped, expanded,
                 {p : p \in {r \in better :
                                \A o \in better :
                                    (o.loc = r.loc /\ o.spin = r.spin)
                                        => ~Cost_gt(o.cost, r.cost)}})
        expand(popped, expanded) ==
            reach(popped, expanded,
                  {p : p \in {r \in UNION {e.proposed : e \in expanded} :
                                 movegen_beats(r.cost, st.reached, index(r.loc, r.spin))}})
        pop(popped) ==
            expand(popped,
                   {e : e \in {movegen_expand(board, q, movement_delay, softdrop_delay)
                                  : q \in popped}})
        top(cost) == pop({q : q \in {r \in st.queue : r.cost = cost}})
    IN  top(least(Min({q.cost.base : q \in st.queue})))

\* The search loop of movegen, run until the queue is empty; the result is the
\* moves map.  round[n] is the state n rounds after st (a search that has
\* emptied its queue stays as it is); the rounds are taken 32 at a time.
RECURSIVE movegen_search(_, _, _, _)
movegen_search(board, movement_delay, softdrop_delay, st) ==
    IF st.queue = {} THEN st.moves
    ELSE LET round[n \in Nat] ==
                 IF n = 0 THEN st
                 ELSE LET prev == round[n - 1]
                      IN  IF prev.queue = {} THEN prev
                          ELSE movegen_step(board, movement_delay, softdrop_delay, prev)
         IN  movegen_search(board, movement_delay, softdrop_delay, round[32])

\* Game::movegen: the map from (canonical location, spin) to the least base
\* cost found; the empty map when the piece cannot spawn
movegen(board, piece, movement_delay, softdrop_delay) ==
    LET start == movegen_start(board, piece)
    IN  IF start = << >> THEN << >>
        ELSE movegen_search(board, movement_delay, softdrop_delay,
                 [reached |-> (index(start[1], "None") :> Cost(0, 0)),
                  queue |-> {QueueMove(start[1], "None", Cost(0, 0))},
                  moves |-> << >>])

(***************************************************************************)
(* Single-side game state: battle/game.rs                                  *)
(***************************************************************************)

\* Option<Piece>::None, the empty hold
NoPiece == "NoPiece"

\* const BAG
BAG == <<"I", "O", "T", "L", "J", "S", "Z">>

\* struct Garbage (a pending entry of garbage_queue)
Garbage(amount, add_time) == [add_time |-> add_time, amount |-> amount]

\* Game::new; garbage_hole is the value thread_rng().gen_range(0..10) returned
Game_new(garbage_hole) ==
    [board |-> Board_default,
     queue |-> << >>,
     hold |-> NoPiece,
     bag |-> BAG,
     combo |-> 0,
     back_to_back |-> FALSE,
     garbage_queue |-> << >>,
     garbage_hole |-> garbage_hole]

\* a removal that drops the last element whatever the index
swap_remove_last(bag, i) == [j \in 1..(Len(bag) - 1) |-> bag[j]]

\* Vec::swap_remove(i), i counted from 0: the last element takes the place of
\* the removed one
swap_remove(bag, i) ==
    [j \in 1..(Len(bag) - 1) |-> IF j = i + 1 THEN bag[Len(bag)] ELSE bag[j]]

\* Game::refill_queue; draws is the sequence of values gen_range(0..bag.len())
\* returns, one for each piece drawn.  The result holds the game and the
\* pieces handed to the callback f, in order.
RECURSIVE refill_queue(_, _, _)
refill_queue(game, size, draws) ==
    IF Len(game.queue) >= size \/ draws = << >> THEN [game |-> game, drawn |-> << >>]
    ELSE LET i == draws[1]
             p == game.bag[i + 1]
             rest == swap_remove(game.bag, i)
             after == [game EXCEPT !.queue = Append(@, p),
                                   !.bag = IF rest = << >> THEN BAG ELSE rest]
             more == refill_queue(after, size, Tail(draws))
         IN  [game |-> more.game, drawn |-> <<p>> \o more.drawn]

\* the sequences of draws refill_queue can consume on this game: one draw for
\* each missing piece, each within 0..bag.len()-1 and within the set allowed
RECURSIVE refill_draws(_, _, _)
refill_draws(game, size, allowed) ==
    IF Len(game.queue) >= size THEN {<< >>}
    ELSE UNION {{<<i>> \o d : d \in refill_draws(refill_queue(game, Len(game.queue) + 1, <<i>>).game,
                                                size, allowed)}
                   : i \in {j \in allowed : j < Len(game.bag)}}

\* the text of a sequence of pieces, one after the other
RECURSIVE pieces_text(_)
pieces_text(pieces) ==
    IF pieces = << >> THEN "" ELSE " " \o pieces[1] \o pieces_text(Tail(pieces))

\* Game::start_msg, the start frame: of its fields the queue is kept
start_msg(game) == "start" \o pieces_text(game.queue)

\* tbp::frontend_msg::NewPiece::new(p), the new_piece frame
NewPiece(p) == "new_piece " \o p

\* the frames written last piece first
new_piece_frames_reversed(drawn) ==
    [i \in 1..Len(drawn) |-> NewPiece(drawn[Len(drawn) + 1 - i])]

\* the frames the callback of refill_queue writes for the pieces drawn
new_piece_frames(drawn) == [i \in 1..Len(drawn) |-> NewPiece(drawn[i])]

\* counter_garbage with the comparison made strict: an entry as large as the
\* amount stays in the queue with 0 rows
RECURSIVE counter_garbage_strict(_, _)
counter_garbage_strict(garbage_queue, amount) ==
    IF garbage_queue = << >> THEN [garbage_queue |-> garbage_queue, amount |-> amount]
    ELSE LET add == garbage_queue[1]
         IN  IF add.amount < amount
             THEN counter_garbage_strict(Tail(garbage_queue), amount - add.amount)
             ELSE [garbage_queue |->
                       <<[add EXCEPT !.amount = add.amount - amount]>> \o Tail(garbage_queue),
                   amount |-> 0]

\* Game::counter_garbage: the result holds the new pending queue and what is
\* left of amount
RECURSIVE counter_garbage(_, _)
counter_garbage(garbage_queue, amount) ==
    IF garbage_queue = << >> THEN [garbage_queue |-> garbage_queue, amount |-> amount]
    ELSE LET add == garbage_queue[1]
         IN  IF add.amount <= amount
             THEN counter_garbage(Tail(garbage_queue), amount - add.amount)
             ELSE [garbage_queue |->
                       <<[add EXCEPT !.amount = add.amount - amount]>> \o Tail(garbage_queue),
                   amount |-> 0]

\* the entry pushed at the front of the pending queue
queue_garbage_front(garbage_queue, amount, add_time) ==
    <<Garbage(amount, add_time)>> \o garbage_queue

\* Game::queue_garbage
queue_garbage(garbage_queue, amount, add_time) ==
    Append(garbage_queue, Garbage(amount, add_time))

\* rng.gen_bool(messiness): messiness is held in percent; 0.0 never yields
\* true and 1.0 always does
gen_bool(messiness) ==
    IF messiness = 0 THEN {FALSE}
    ELSE IF messiness = 100 THEN {TRUE}
    ELSE BOOLEAN

\* the inner loop with the column drawn taken as it is, also when it is the
\* current hole
RECURSIVE garbage_rows_unmapped(_, _, _, _, _)
garbage_rows_unmapped(i, amount, garbage_hole, config, draws) ==
    IF i >= amount THEN {[garbage_hole |-> garbage_hole, added |-> << >>]}
    ELSE LET redraw == IF i = 0 /\ config.garbage.change_on_attack THEN {TRUE}
                       ELSE gen_bool(config.garbage.messiness)
             holes == (IF TRUE \in redraw THEN draws ELSE {})
                      \cup (IF FALSE \in redraw THEN {garbage_hole} ELSE {})
         IN  UNION {{[rest EXCEPT !.added = <<h>> \o @]
                        : rest \in garbage_rows_unmapped(i + 1, amount, h, config, draws)}
                       : h \in holes}

\* the inner loop of Game::add_garbage for one pending entry, from row i on:
\* every outcome [garbage_hole, added] the random draws allow; draws is the set
\* of values gen_range(0..9) may return
RECURSIVE garbage_rows(_, _, _, _, _)
garbage_rows(i, amount, garbage_hole, config, draws) ==
    IF i >= amount THEN {[garbage_hole |-> garbage_hole, added |-> << >>]}
    ELSE LET redraw == IF i = 0 /\ config.garbage.change_on_attack THEN {TRUE}
                       ELSE gen_bool(config.garbage.messiness)
             holes == (IF TRUE \in redraw
                       THEN {IF hole = garbage_hole THEN 9 ELSE hole : hole \in draws}
                       ELSE {})
                      \cup (IF FALSE \in redraw THEN {garbage_hole} ELSE {})
         IN  UNION {{[rest EXCEPT !.added = <<h>> \o @]
                        : rest \in garbage_rows(i + 1, amount, h, config, draws)}
                       : h \in holes}

\* the outer loop that goes on to the end of the queue, whatever the times
RECURSIVE garbage_due_all(_, _, _, _, _)
garbage_due_all(garbage_queue, now, garbage_hole, config, draws) ==
    IF garbage_queue = << >>
    THEN {[garbage_queue |-> garbage_queue, garbage_hole |-> garbage_hole, added |-> << >>]}
    ELSE UNION {{[rest EXCEPT !.added = r.added \o @]
                    : rest \in garbage_due_all(Tail(garbage_queue), now, r.garbage_hole,
                                               config, draws)}
                   : r \in garbage_rows(0, garbage_queue[1].amount, garbage_hole,
                                        config, draws)}

\* the outer loop of Game::add_garbage: the entries at the head whose add_time
\* has come are turned into rows and popped
RECURSIVE garbage_due(_, _, _, _, _)
garbage_due(garbage_queue, now, garbage_hole, config, draws) ==
    IF garbage_queue = << >> \/ garbage_queue[1].add_time > now
    THEN {[garbage_queue |-> garbage_queue, garbage_hole |-> garbage_hole, added |-> << >>]}
    ELSE UNION {{[rest EXCEPT !.added = r.added \o @]
                    : rest \in garbage_due(Tail(garbage_queue), now, r.garbage_hole,
                                           config, draws)}
                   : r \in garbage_rows(0, garbage_queue[1].amount, garbage_hole,
                                        config, draws)}

\* add_garbage that takes an entry as due one quantum before its add_time
Game_add_garbage_early(game, now, config, draws) ==
    {[game |-> [game EXCEPT !.garbage_queue = r.garbage_queue,
                            !.garbage_hole = r.garbage_hole,
                            !.board = Board_add_garbage(game.board, r.added)],
      added |-> r.added]
        : r \in garbage_due(game.garbage_queue, now + 1, game.garbage_hole, config, draws)}

\* Game::add_garbage: every outcome [game, added] the random draws allow
Game_add_garbage(game, now, config, draws) ==
    {[game |-> [game EXCEPT !.garbage_queue = r.garbage_queue,
                            !.garbage_hole = r.garbage_hole,
                            !.board = Board_add_garbage(game.board, r.added)],
      added |-> r.added]
        : r \in garbage_due(game.garbage_queue, now, game.garbage_hole, config, draws)}

\* MaybeUnknown::Unknown: a piece, orientation or spin name this program does
\* not know
Unknown == "Unknown"

\* tbp::data::Move, the candidate a bot suggests
Move(kind, orientation, x, y, spin) ==
    [kind |-> kind, orientation |-> orientation, x |-> x, y |-> y, spin |-> spin]

\* TryFrom<tbp::data::PieceLocation> for PieceLocation: << >> stands for Err
PieceLocation_try_from(mv) ==
    IF mv.kind \in Piece /\ mv.orientation \in Rotation
    THEN <<PieceLocation(mv.kind, mv.orientation, mv.x, mv.y)>>
    ELSE << >>

\* TryFrom<MaybeUnknown<tbp::data::Spin>> for Spin: << >> stands for Err
Spin_try_from(mv) == IF mv.spin \in Spin THEN <<mv.spin>> ELSE << >>

\* the candidate lists a bot answers a suggest request with in a match: the
\* stacking plan of a bot that fills the bottom row (I, then S over the hold,
\* J, L), the same plan with the L stood on the stack instead (no row is
\* filled), and a list of candidates no game accepts (an unknown piece name,
\* a location in mid-air)
StackingPlan ==
    <<Move("I", "North", 1, 0, "None"), Move("S", "North", 1, 1, "None"),
      Move("J", "North", 5, 0, "None"), Move("L", "North", 8, 0, "None")>>

LatePlan == [StackingPlan EXCEPT ![4] = Move("L", "East", 7, 1, "None")]

BadPlan == <<Move(Unknown, "North", 1, 0, "None"), Move("I", "North", 1, 5, "None")>>

Suggestions == {StackingPlan, LatePlan, BadPlan}

\* the candidate list of a bot that drops the I where it spawns, in column 4
DropPlan == <<Move("I", "North", 4, 0, "None")>>

\* the boards the stacking plan goes through
PlanBoards ==
    LET after[i \in 0..Len(StackingPlan)] ==
            IF i = 0 THEN Board_default
            ELSE place(after[i - 1], PieceLocation_try_from(StackingPlan[i])[1]).board
    IN  [i \in 1..Len(StackingPlan) |-> after[i - 1]]

\* the board after the I of DropPlan
DropBoard == place(Board_default, PieceLocation_try_from(DropPlan[1])[1]).board

\* a board of rows garbage rows over an empty grid, all with the hole in
\* column hole
GarbageBoard(rows, hole) == Board_add_garbage(Board_default, [i \in 1..rows |-> hole])

\* the boards a single call of play_suggestion is explored on: a stack of 18
\* garbage rows that reaches the spawn area, and one of 4 rows that an I piece
\* in the hole clears completely
PlayBoards == {GarbageBoard(18, 0), GarbageBoard(4, 0)}

\* a stack of 14 garbage rows with a J stood on it (East, at x = 2): the top
\* cell of the J hangs over column 3
OverhangBoard == place(GarbageBoard(14, 0), PieceLocation("J", "East", 2, 15)).board

\* stacks of garbage rows that reach the spawn area: up to row 17 (the piece
\* spawns at y = 19), up to row 19 (it spawns at y = 20) and up to row 20 (no
\* piece can spawn)
TopBoards == {GarbageBoard(18, 0), GarbageBoard(20, 0), GarbageBoard(21, 0)}

\* those stacks after an I was laid flat on them where it spawns
ToppedBoards ==
    {place(GarbageBoard(18, 0), PieceLocation("I", "North", 4, 18)).board,
     place(GarbageBoard(20, 0), PieceLocation("I", "North", 4, 20)).board}

\* a stack of 14 garbage rows with a slot three rows deep in column 6 under
\* an overhang at (6, 18), and a notch at (5, 15) under the cell (5, 16): a T
\* that lies on (4, 16) and (5, 16) turns into the slot by the last kick only;
\* left of it a slot two rows deep at (2, 14) under the overhang (3, 16)
TripleCells ==
    {<<1, 14>>, <<3, 14>>, <<3, 16>>,
     <<4, 14>>, <<4, 15>>, <<4, 16>>, <<5, 16>>, <<6, 18>>,
     <<7, 14>>, <<7, 15>>, <<7, 16>>, <<7, 17>>, <<7, 18>>}

TripleBoard ==
    [y \in 0..(BoardHeight - 1) |->
        [x \in 0..(BoardWidth - 1) |->
            IF <<x, y>> \in TripleCells THEN "Garbage" ELSE GarbageBoard(14, 0)[y][x]]]

\* the boards and pieces single searches of movegen are explored on
MovegenBoards == {OverhangBoard, TripleBoard} \cup TopBoards

MovegenPieces == Piece

\* The movegen maps asked for again and again are computed once: those of the
\* boards the stacking plan goes through, for the piece it places there, that
\* of the board after DropPlan for the S a plan places next, and those of the
\* boards of PlayBoards for the pieces "I" and "T", those of MovegenBoards for
\* every piece, and those of ToppedBoards for the two pieces that follow the
\* I, all under movement and softdrop delays of 1.
movegen_table ==
    [k \in {<<PlanBoards[i], StackingPlan[i].kind, 1, 1>> : i \in 1..Len(StackingPlan)}
              \cup {<<DropBoard, "S", 1, 1>>}
              \cup {<<b, piece, 1, 1>> : b \in MovegenBoards, piece \in MovegenPieces}
              \cup {<<b, piece, 1, 1>> : b \in ToppedBoards, piece \in {"Z", "S"}}
              \cup {<<b, piece, 1, 1>> : b \in PlayBoards, piece \in {"I", "T"}} |->
        movegen(k[1], k[2], k[3], k[4])]

\* the entry of a table under key when it has one, and otherwise computed
tabulated(table, key, computed) == IF key \in DOMAIN table THEN table[key] ELSE computed

\* Game::movegen is movegen, read from the table where the table has the entry
Game_movegen(board, piece, movement_delay, softdrop_delay) ==
    tabulated(movegen_table, <<board, piece, movement_delay, softdrop_delay>>,
              movegen(board, piece, movement_delay, softdrop_delay))

\* struct PlayedMove
PlayedMove(mv, clear, placement_delay, clear_delay, garbage_sent) ==
    [mv |-> mv, clear |-> clear, placement_delay |-> placement_delay,
     clear_delay |-> clear_delay, garbage_sent |-> garbage_sent]

\* a lookup that finds every key, with delay 0
group_get_any(group, loc, spin) == <<0>>

\* group.get(&(loc, spin)): <<delay>> for Some(&delay), << >> for None
group_get(group, loc, spin) ==
    IF <<loc, spin>> \in DOMAIN group THEN <<group[<<loc, spin>>]>> ELSE << >>

\* the bonus granted whenever the flag is set, whatever the clear
back_to_back_always(config, back_to_back, is_hard) ==
    IF back_to_back THEN config.garbage.back_to_back ELSE 0

\* if self.back_to_back && is_hard { garbage_sent += config.garbage.back_to_back }
back_to_back_bonus(config, back_to_back, is_hard) ==
    IF back_to_back /\ is_hard THEN config.garbage.back_to_back ELSE 0

\* the body of play_suggestion once a candidate is found in its group: the
\* queue and hold update and the attack computation; placed is the result of
\* self.board.place(loc)
play_placed(game, config, mv, loc, spin, placement_delay, placed) ==
    LET next == game.queue[1]
        hold == IF game.hold # NoPiece THEN game.hold ELSE game.queue[2]
        cleared == placed.cleared
        popped == Tail(game.queue)
        is_hard == spin # "None" \/ cleared = 4
        perfect == is_pc(placed.board)
        table == CASE spin = "None" -> config.garbage.clear
                   [] spin = "Mini" -> config.garbage.mini
                   [] spin = "Full" -> config.garbage.spin
        level == IF game.combo < Len(config.garbage.combo) - 1
                 THEN game.combo ELSE Len(config.garbage.combo) - 1
        total == table[cleared]
                     + back_to_back_bonus(config, game.back_to_back, is_hard)
                     + config.garbage.combo[level + 1]
    IN  [game |-> [game EXCEPT
                      !.board = placed.board,
                      !.queue = IF loc.piece = hold /\ game.hold = NoPiece /\ popped # << >>
                                THEN Tail(popped) ELSE popped,
                      !.hold = IF loc.piece = hold THEN next ELSE @,
                      !.combo = IF cleared = 0 THEN 0 ELSE @ + 1,
                      !.back_to_back = IF cleared = 0 THEN @ ELSE is_hard],
         played |-> <<PlayedMove(mv, cleared > 0, placement_delay,
                         IF cleared = 0 THEN 0
                         ELSE IF perfect THEN config.delays.pc[cleared]
                         ELSE config.delays.clear[cleared],
                         IF cleared = 0 THEN 0
                         ELSE IF ~perfect THEN total
                         ELSE IF config.garbage.pc_additive
                         THEN total + config.garbage.pc[cleared]
                         ELSE config.garbage.pc[cleared])>>,
         panic |-> place_panics(loc) \/ (cleared > 0 /\ cleared > Len(table))]

\* the loop of play_suggestion over the candidates.  played is << >> for None
\* and <<PlayedMove>> for Some; panic reports an index outside the queue
\* (self.queue[0] and self.queue[1] are read for every candidate that
\* converts).  next_moves and hold_moves are the two lazily filled movegen
\* maps.
play_candidates(game, suggested, config, next_moves, hold_moves) ==
    LET try[i \in 1..(Len(suggested) + 1)] ==
            IF i > Len(suggested)
            THEN [game |-> game, played |-> << >>, panic |-> FALSE]
            ELSE IF PieceLocation_try_from(suggested[i]) = << >>
                    \/ Spin_try_from(suggested[i]) = << >>
            THEN try[i + 1]
            ELSE IF Len(game.queue) < 2
            THEN [game |-> game, played |-> << >>, panic |-> TRUE]
            ELSE LET loc == canonical_form(PieceLocation_try_from(suggested[i])[1])
                     spin == Spin_try_from(suggested[i])[1]
                     next == game.queue[1]
                     hold == IF game.hold # NoPiece THEN game.hold ELSE game.queue[2]
                 IN  IF loc.piece = next /\ group_get(next_moves, loc, spin) # << >>
                     THEN play_placed(game, config, suggested[i], loc, spin,
                                      group_get(next_moves, loc, spin)[1],
                                      place(game.board, loc))
                     ELSE IF loc.piece # next /\ loc.piece = hold
                             /\ group_get(hold_moves, loc, spin) # << >>
                     THEN play_placed(game, config, suggested[i], loc, spin,
                                      group_get(hold_moves, loc, spin)[1],
                                      place(game.board, loc))
                     ELSE try[i + 1]
    IN  try[1]

\* Game::play_suggestion: the board does not change before a candidate is
\* accepted, so each of the two maps is the movegen map of its piece on
\* game.board
play_suggestion(game, suggested, config) ==
    play_candidates(game, suggested, config,
        Game_movegen(game.board, game.queue[1],
                     config.delays.movement, config.delays.softdrop),
        Game_movegen(game.board, IF game.hold # NoPiece THEN game.hold ELSE game.queue[2],
                     config.delays.movement, config.delays.softdrop))

(***************************************************************************)
(* Match driver: battle.rs                                                 *)
(***************************************************************************)

\* enum Side
Side == {"Left", "Right"}

\* let opponent = match event.side { ... }
opponent(side) == IF side = "Left" THEN "Right" ELSE "Left"

\* enum EventType; arg is the payload of PollMove (the time of the request)
\* and of SendGarbage (the amount), and 0 for the kinds without payload
PollMove(requested) == [kind |-> "PollMove", arg |-> requested]
RequestMove == [kind |-> "RequestMove", arg |-> 0]
CheckGarbage == [kind |-> "CheckGarbage", arg |-> 0]
SendGarbage(amount) == [kind |-> "SendGarbage", arg |-> amount]

\* struct Event
Event(side, time, event) == [side |-> side, time |-> time, event |-> event]

\* EventType::priority
priority(event) ==
    CASE event.kind = "PollMove" -> 3
      [] event.kind = "RequestMove" -> 2
      [] event.kind = "CheckGarbage" -> 1
      [] event.kind = "SendGarbage" -> 0

\* impl Ord for Event (before its .reverse()): a is ordered before b
Event_lt(a, b) ==
    a.time < b.time \/ (a.time = b.time /\ priority(a.event) < priority(b.event))

\* a heap ordered by the scheduled time alone
poppable_by_time(queue) == {e \in queue : \A o \in queue : o.time >= e.time}

\* the events BinaryHeap::pop may return: with the reversed order the greatest
\* element of the heap is one that no other event is ordered before; which
\* one of several such events is popped is left open
poppable(queue) == {e \in queue : \A o \in queue : ~Event_lt(o, e)}

\* bounds of the exploration
MaxTime == 24
MaxLag == 0
BagDraws == {0}
HoleDraws == {0, 8}
InitialHoles == {0}

\* BattleConfigRaw: a small rule set in the shape of the "ppt" preset, with
\* 250 ms quanta so that the 500 ms poll timeout falls on the third quantum
Config(countering, blocking) ==
    [time_quanta_ms |-> 250,
     next_queue_size |-> 2,
     delays |-> [start |-> 1, spawn |-> 1, movement |-> 1, softdrop |-> 1,
                 clear |-> <<2, 2, 2, 3>>, pc |-> <<1, 1, 1, 1>>, garbage |-> 1],
     garbage |-> [clear |-> <<1, 1, 2, 4>>, mini |-> <<0, 1, 2>>, spin |-> <<2, 4, 6>>,
                  back_to_back |-> 1, pc |-> <<10, 10, 10, 10>>, pc_additive |-> FALSE,
                  combo |-> <<0, 0, 1>>, change_on_attack |-> TRUE, messiness |-> 0,
                  countering |-> countering, blocking |-> blocking]]

Configs == {Config(TRUE, TRUE), Config(FALSE, TRUE), Config(FALSE, FALSE)}

VARIABLES
    config,       \* the BattleConfigRaw of the match
    games,        \* left_game, right_game
    event_queue,  \* the BinaryHeap of events
    current,      \* the virtual time computed at the last wake-up
    running,      \* the cancellation flag (true while the match may go on)
    pc,           \* "loop", "drain", "done" (returned) or "panic"
    winner,       \* << >> for no winner, <<side>> for Some(side)
    bots,         \* each bot process: "idle", "asked" or "exited"
    inbox,        \* from_bot: the messages of each bot not yet received
    sent,         \* the frames written to each bot, in order
    played,       \* the last result of play_suggestion for each side
    lag,          \* quanta of timer overshoot and late replies so far
    falling       \* movegen: << >>, or <<mv>> for the QueueMove a search path is at

vars == <<config, games, event_queue, current, running, pc, winner, bots, inbox,
          sent, played, lag, falling>>

\* BotInstance::send_message: the frame is written unless the process has
\* exited; the driver ignores the error
send_message(log, bot, frames) == IF bot = "exited" THEN log ELSE log \o frames

\* the start of battle(): two RequestMove events at delays.start, two new
\* games with their queues filled, a start frame to each bot
Init ==
    /\ config \in Configs
    /\ games \in [Side -> UNION {{refill_queue(Game_new(h), config.next_queue_size, d).game
                                     : d \in refill_draws(Game_new(h), config.next_queue_size,
                                                          BagDraws)}
                                    : h \in InitialHoles}]
    /\ event_queue = {Event(side, config.delays.start, RequestMove) : side \in Side}
    /\ current = 0
    /\ running = TRUE
    /\ pc = "loop"
    /\ winner = << >>
    /\ bots = [side \in Side |-> "idle"]
    /\ inbox = [side \in Side |-> << >>]
    /\ sent = [side \in Side |-> <<start_msg(games[side])>>]
    /\ played = [side \in Side |-> << >>]
    /\ lag = 0
    /\ falling = << >>

\* the messages a bot writes: a suggestion with its candidate list, or an
\* info message (any known message that is not a suggestion)
Suggestion(moves) == [type |-> "suggestion", moves |-> moves]
Info == [type |-> "info", moves |-> << >>]

\* the time the loop may compute as `current` after sleeping for a popped
\* event: not before the event is due and not before the last value
due(event) == IF event.time > current THEN event.time ELSE current

\* One turn of the loop up to the match on event.event: the event is popped,
\* the thread sleeps until it is due, the flag is still set and the virtual
\* time is now.
Woken(event, now) ==
    /\ pc = "loop"
    /\ running
    /\ event \in poppable(event_queue)
    /\ now \in due(event)..(due(event) + MaxLag - lag)
    /\ now <= MaxTime
    /\ current' = now
    /\ lag' = lag + (now - due(event))

\* the loop ends with side itself as the winner
Break_polled(side, queue) ==
    /\ winner' = <<side>>
    /\ pc' = IF queue = {} THEN "done" ELSE "drain"

\* the loop ends with the opponent of side as the winner; the drain follows
\* unless no event is left
Break(side, queue) ==
    /\ winner' = <<opponent(side)>>
    /\ pc' = IF queue = {} THEN "done" ELSE "drain"

\* EventType::RequestMove
DispatchRequestMove ==
    \E event \in event_queue, now \in 0..MaxTime :
        /\ event.event.kind = "RequestMove"
        /\ Woken(event, now)
        /\ sent' = [sent EXCEPT ![event.side] =
                       send_message(@, bots[event.side], <<"suggest">>)]
        /\ bots' = [bots EXCEPT ![event.side] = IF @ = "exited" THEN @ ELSE "asked"]
        /\ event_queue' = (event_queue \ {event})
                              \cup {Event(event.side, now + 1, PollMove(now))}
        /\ UNCHANGED <<falling, config, games, running, pc, winner, inbox, played>>

\* EventType::PollMove, poll_message() is Err: the bot process has exited
PollError ==
    \E event \in event_queue, now \in 0..MaxTime :
        /\ event.event.kind = "PollMove"
        /\ Woken(event, now)
        /\ bots[event.side] = "exited"
        /\ event_queue' = event_queue \ {event}
        /\ Break(event.side, event_queue')
        /\ UNCHANGED <<falling, config, games, running, bots, inbox, sent, played>>

\* an Ok(None) arm that asks the bot again instead of polling again
PollWait_asks_again ==
    \E event \in event_queue, now \in 0..MaxTime :
        /\ event.event.kind = "PollMove"
        /\ Woken(event, now)
        /\ bots[event.side] # "exited"
        /\ inbox[event.side] = << >>
        /\ ~((now - event.event.arg) * config.time_quanta_ms > 500)
        /\ event_queue' = (event_queue \ {event})
                              \cup {Event(event.side, now + 1, RequestMove)}
        /\ UNCHANGED <<falling, config, games, running, pc, winner, bots, inbox, sent, played>>

\* EventType::PollMove, poll_message() is Ok(None) within the 500 ms
PollWait ==
    \E event \in event_queue, now \in 0..MaxTime :
        /\ event.event.kind = "PollMove"
        /\ Woken(event, now)
        /\ bots[event.side] # "exited"
        /\ inbox[event.side] = << >>
        /\ ~((now - event.event.arg) * config.time_quanta_ms > 500)
        /\ event_queue' = (event_queue \ {event}) \cup {[event EXCEPT !.time = now + 1]}
        /\ UNCHANGED <<falling, config, games, running, pc, winner, bots, inbox, sent, played>>

\* EventType::PollMove, poll_message() is Ok(None) after more than 500 ms
PollTimeout ==
    \E event \in event_queue, now \in 0..MaxTime :
        /\ event.event.kind = "PollMove"
        /\ Woken(event, now)
        /\ bots[event.side] # "exited"
        /\ inbox[event.side] = << >>
        /\ (now - event.event.arg) * config.time_quanta_ms > 500
        /\ event_queue' = (event_queue \ {event}) \cup {[event EXCEPT !.time = now + 1]}
        /\ Break(event.side, event_queue')
        /\ UNCHANGED <<falling, config, games, running, bots, inbox, sent, played>>

\* follow-up events that take no account of garbage.blocking
follow_up_unblocked(side, now, p) ==
    {Event(side, now + (p.placement_delay + p.clear_delay), CheckGarbage)}
    \cup (IF p.garbage_sent > 0
          THEN {Event(side, now + p.placement_delay, SendGarbage(p.garbage_sent))}
          ELSE {})

\* the events pushed after an accepted move
follow_up(side, now, p) ==
    {IF p.clear /\ config.garbage.blocking
     THEN Event(side, now + (p.placement_delay + p.clear_delay + config.delays.spawn),
                RequestMove)
     ELSE Event(side, now + (p.placement_delay + p.clear_delay), CheckGarbage)}
    \cup (IF p.garbage_sent > 0
          THEN {Event(side, now + p.placement_delay, SendGarbage(p.garbage_sent))}
          ELSE {})

\* the Suggestion arm of PollMove, given the result of play_suggestion: the
\* move is played, its follow-up events are pushed and the queue is refilled,
\* or no candidate is accepted and the opponent wins
Suggested(event, now, result) ==
    /\ played' = [played EXCEPT ![event.side] = result.played]
    /\ IF result.panic
       THEN /\ pc' = "panic"
            /\ event_queue' = event_queue \ {event}
            /\ UNCHANGED <<games, winner, sent>>
       ELSE IF result.played = << >>
       THEN /\ event_queue' = event_queue \ {event}
            /\ Break(event.side, event_queue')
            /\ UNCHANGED <<games, sent>>
       ELSE /\ event_queue' = (event_queue \ {event})
                                  \cup follow_up(event.side, now, result.played[1])
            /\ \E draws \in refill_draws(result.game, config.next_queue_size, BagDraws) :
                   /\ games' = [games EXCEPT ![event.side] =
                                   refill_queue(result.game, config.next_queue_size,
                                                draws).game]
                   /\ sent' = [sent EXCEPT ![event.side] =
                                  send_message(@, bots[event.side],
                                      <<"play">> \o new_piece_frames(
                                          refill_queue(result.game, config.next_queue_size,
                                                       draws).drawn))]
            /\ UNCHANGED <<pc, winner>>

\* EventType::PollMove, poll_message() is a suggestion
PollSuggestion ==
    \E event \in event_queue, now \in 0..MaxTime :
        /\ event.event.kind = "PollMove"
        /\ Woken(event, now)
        /\ bots[event.side] # "exited"
        /\ inbox[event.side] # << >>
        /\ Head(inbox[event.side]).type = "suggestion"
        /\ inbox' = [inbox EXCEPT ![event.side] = Tail(@)]
        /\ Suggested(event, now,
                     play_suggestion(games[event.side], Head(inbox[event.side]).moves,
                                     config))
        /\ UNCHANGED <<falling, config, running, bots>>

\* an Ok(_) arm that polls again one quantum later, as the Ok(None) arm does
PollOther_repolls ==
    \E event \in event_queue, now \in 0..MaxTime :
        /\ event.event.kind = "PollMove"
        /\ Woken(event, now)
        /\ bots[event.side] # "exited"
        /\ inbox[event.side] # << >>
        /\ Head(inbox[event.side]).type # "suggestion"
        /\ inbox' = [inbox EXCEPT ![event.side] = Tail(@)]
        /\ event_queue' = (event_queue \ {event}) \cup {[event EXCEPT !.time = now + 1]}
        /\ UNCHANGED <<falling, config, games, running, pc, winner, bots, sent, played>>

\* EventType::PollMove, poll_message() is a message that is no suggestion: the
\* Ok(_) arm does nothing
PollOther ==
    \E event \in event_queue, now \in 0..MaxTime :
        /\ event.event.kind = "PollMove"
        /\ Woken(event, now)
        /\ bots[event.side] # "exited"
        /\ inbox[event.side] # << >>
        /\ Head(inbox[event.side]).type # "suggestion"
        /\ inbox' = [inbox EXCEPT ![event.side] = Tail(@)]
        /\ event_queue' = event_queue \ {event}
        /\ UNCHANGED <<falling, config, games, running, pc, winner, bots, sent, played>>

\* a SendGarbage that queues the whole attack on the opponent after it has
\* cancelled what it could of its own side's pending rows
DispatchSendGarbage_whole ==
    \E event \in event_queue, now \in 0..MaxTime :
        /\ event.event.kind = "SendGarbage"
        /\ Woken(event, now)
        /\ LET side == event.side
               countered == IF config.garbage.countering
                            THEN counter_garbage(games[side].garbage_queue, event.event.arg)
                            ELSE [garbage_queue |-> games[side].garbage_queue,
                                  amount |-> event.event.arg]
           IN  games' = [games EXCEPT
                            ![side].garbage_queue = countered.garbage_queue,
                            ![opponent(side)].garbage_queue =
                                queue_garbage(@, event.event.arg,
                                              now + config.delays.garbage)]
        /\ event_queue' = event_queue \ {event}
        /\ UNCHANGED <<falling, config, running, pc, winner, bots, inbox, sent, played>>

\* EventType::SendGarbage
DispatchSendGarbage ==
    \E event \in event_queue, now \in 0..MaxTime :
        /\ event.event.kind = "SendGarbage"
        /\ Woken(event, now)
        /\ LET side == event.side
               countered == IF config.garbage.countering
                            THEN counter_garbage(games[side].garbage_queue, event.event.arg)
                            ELSE [garbage_queue |-> games[side].garbage_queue,
                                  amount |-> event.event.arg]
           IN  games' = [games EXCEPT
                            ![side].garbage_queue = countered.garbage_queue,
                            ![opponent(side)].garbage_queue =
                                IF countered.amount # 0
                                THEN queue_garbage(@, countered.amount,
                                                   now + config.delays.garbage)
                                ELSE @]
        /\ event_queue' = event_queue \ {event}
        /\ UNCHANGED <<falling, config, running, pc, winner, bots, inbox, sent, played>>

\* a CheckGarbage that sends the start frame whether rows were added or not
DispatchCheckGarbage_always_starts ==
    \E event \in event_queue, now \in 0..MaxTime :
        /\ event.event.kind = "CheckGarbage"
        /\ Woken(event, now)
        /\ \E out \in Game_add_garbage(games[event.side], now, config, HoleDraws) :
               /\ games' = [games EXCEPT ![event.side] = out.game]
               /\ sent' = [sent EXCEPT ![event.side] =
                              send_message(@, bots[event.side], <<start_msg(out.game)>>)]
        /\ event_queue' = (event_queue \ {event})
                              \cup {Event(event.side, now + config.delays.spawn, RequestMove)}
        /\ UNCHANGED <<falling, config, running, pc, winner, bots, inbox, played>>

\* EventType::CheckGarbage
DispatchCheckGarbage ==
    \E event \in event_queue, now \in 0..MaxTime :
        /\ event.event.kind = "CheckGarbage"
        /\ Woken(event, now)
        /\ \E out \in Game_add_garbage(games[event.side], now, config, HoleDraws) :
               /\ games' = [games EXCEPT ![event.side] = out.game]
               /\ sent' = [sent EXCEPT ![event.side] =
                              IF out.added # << >>
                              THEN send_message(@, bots[event.side], <<start_msg(out.game)>>)
                              ELSE @]
        /\ event_queue' = (event_queue \ {event})
                              \cup {Event(event.side, now + config.delays.spawn, RequestMove)}
        /\ UNCHANGED <<falling, config, running, pc, winner, bots, inbox, played>>

\* the flag is found cleared after the sleep, and the loop is left by its
\* break: the drain follows
Cancelled_drains ==
    \E event \in poppable(event_queue) :
        /\ pc = "loop"
        /\ ~running
        /\ event_queue' = event_queue \ {event}
        /\ pc' = IF event_queue' = {} THEN "done" ELSE "drain"
        /\ winner' = << >>
        /\ UNCHANGED <<falling, config, games, current, running, bots, inbox, sent, played, lag>>

\* the flag is found cleared after the sleep: return None
Cancelled ==
    \E event \in poppable(event_queue) :
        /\ pc = "loop"
        /\ ~running
        /\ event_queue' = event_queue \ {event}
        /\ pc' = "done"
        /\ winner' = << >>
        /\ UNCHANGED <<falling, config, games, current, running, bots, inbox, sent, played, lag>>

\* event_queue.pop().unwrap() on an empty heap
PopEmpty ==
    /\ pc = "loop"
    /\ event_queue = {}
    /\ pc' = "panic"
    /\ UNCHANGED <<falling, config, games, event_queue, current, running, winner, bots, inbox,
                   sent, played, lag>>

\* One turn of the drain loop after the break: a PollMove event waits for a
\* message of its bot (block_message returns at once with Err when the
\* process has exited); Some(winner) is returned when no event is left
Drain ==
    \E event \in poppable(event_queue) :
        /\ pc = "drain"
        /\ IF event.event.kind = "PollMove" /\ bots[event.side] # "exited"
           THEN /\ inbox[event.side] # << >>
                /\ inbox' = [inbox EXCEPT ![event.side] = Tail(@)]
           ELSE UNCHANGED inbox
        /\ event_queue' = event_queue \ {event}
        /\ pc' = IF event_queue' = {} THEN "done" ELSE "drain"
        /\ UNCHANGED <<falling, config, games, current, running, winner, bots, sent, played, lag>>

\* the quanta a bot has let pass since the request it is answering
latency(side) ==
    LET polls == {e \in event_queue : e.side = side /\ e.event.kind = "PollMove"}
    IN  IF pc # "loop" \/ polls = {} THEN 0
        ELSE current - (CHOOSE e \in polls : TRUE).event.arg

\* a bot answers the suggest request with a message
BotReply(side, msg) ==
    /\ pc \in {"loop", "drain"}
    /\ bots[side] = "asked"
    /\ inbox' = [inbox EXCEPT ![side] = Append(@, msg)]
    /\ bots' = [bots EXCEPT ![side] = "idle"]
    /\ UNCHANGED <<falling, config, games, event_queue, current, running, pc, winner, sent, played>>

\* the message is a suggestion; the quanta it took count as lag
BotSuggests ==
    \E side \in Side, moves \in Suggestions :
        /\ lag + latency(side) <= MaxLag
        /\ lag' = lag + latency(side)
        /\ BotReply(side, Suggestion(moves))

\* the message is some other message of the protocol, at any time after the
\* request
BotInforms == \E side \in Side : BotReply(side, Info) /\ UNCHANGED lag

\* a bot process exits
BotExits ==
    \E side \in Side :
        /\ pc \in {"loop", "drain"}
        /\ bots[side] # "exited"
        /\ bots' = [bots EXCEPT ![side] = "exited"]
        /\ UNCHANGED <<falling, config, games, event_queue, current, running, pc, winner, inbox,
                       sent, played, lag>>

\* the owner of the match clears the flag
Cancel ==
    /\ pc = "loop"
    /\ running
    /\ running' = FALSE
    /\ UNCHANGED <<falling, config, games, event_queue, current, pc, winner, bots, inbox, sent,
                   played, lag>>

Next ==
    \/ DispatchRequestMove
    \/ PollError
    \/ PollWait
    \/ PollTimeout
    \/ PollSuggestion
    \/ PollOther
    \/ DispatchSendGarbage
    \/ DispatchCheckGarbage
    \/ Cancelled
    \/ PopEmpty
    \/ Drain
    \/ BotSuggests
    \/ BotInforms
    \/ BotExits
    \/ Cancel

Spec == Init /\ [][Next]_vars

\* the match with a driver thread that goes on whenever the drain loop can
\* take its next turn: a turn on a PollMove can be taken once recv() on the
\* bot's channel has a message to return or the process has exited
DrainSpec == Init /\ [][Next]_vars /\ WF_vars(Drain)

\* the match with bots that may also answer with DropPlan
BotDrops ==
    \E side \in Side :
        /\ lag + latency(side) <= MaxLag
        /\ lag' = lag + latency(side)
        /\ BotReply(side, Suggestion(DropPlan))

DropNext == Next \/ BotDrops

DropSpec == Init /\ [][DropNext]_vars

(***************************************************************************)
(* Single calls of Game::play_suggestion and Game::refill_queue            *)
(***************************************************************************)

\* bounds of the exploration: the calls of play_suggestion that accept a move,
\* for each side, and the values gen_range(0..bag.len()) returns
MaxPlays == 1
PlayDraws == {0, 2}

\* the rule sets: the perfect clear bonus replaces the attack or adds to it
PlayConfigs ==
    {[Config(TRUE, TRUE) EXCEPT !.garbage.pc_additive = additive] : additive \in BOOLEAN}

\* games between two moves of a match: the board is one of PlayBoards, the
\* queue holds the last piece of a bag and the first piece drawn from the next
\* bag, the hold is empty or holds a T
PlayGames(size) ==
    {refill_queue([Game_new(0) EXCEPT !.board = board, !.bag = <<last>>, !.hold = hold,
                                      !.combo = combo, !.back_to_back = back_to_back],
                  size, <<0, draw>>).game
        : board \in PlayBoards, last \in {"I", "T"}, draw \in PlayDraws,
          hold \in {NoPiece, "T"}, combo \in {0, 3}, back_to_back \in BOOLEAN}

\* the candidate lists handed to play_suggestion: an I in the hole (written in
\* the West orientation) after an unknown piece and a location in mid-air; a
\* T turned into the hole before the I in the hole; an I laid flat before a T
\* in the hole that claims no spin; a T laid flat; a T with an unknown spin
\* name and a location in mid-air
PlaySuggestions ==
    {<<Move(Unknown, "North", 4, 18, "None"), Move("I", "North", 4, 25, "None"),
       Move("I", "West", 0, 1, "None")>>,
     <<Move("T", "East", 0, 18, "Mini"), Move("I", "East", 0, 2, "None")>>,
     <<Move("I", "North", 4, 18, "None"), Move("T", "East", 0, 18, "None")>>,
     <<Move("T", "North", 4, 18, "None")>>,
     <<Move("T", "East", 0, 18, Unknown), Move("I", "North", 4, 25, "None")>>}

PlayInit ==
    /\ config \in PlayConfigs
    /\ games \in {[side \in Side |-> g] : g \in PlayGames(config.next_queue_size)}
    /\ event_queue = {}
    /\ current = 0
    /\ running = TRUE
    /\ pc = "play"
    /\ winner = << >>
    /\ bots = [side \in Side |-> "idle"]
    /\ inbox = [side \in Side |-> << >>]
    /\ sent = [side \in Side |-> <<start_msg(games[side])>>]
    /\ played = [side \in Side |-> << >>]
    /\ lag = 0
    /\ falling = << >>

\* the moves of side accepted so far: one play frame is written for each
plays(side) == Cardinality({i \in DOMAIN sent[side] : sent[side][i] = "play"})

\* a candidate list arrives for a side whose queue is full
PlaySuggest ==
    \E side \in Side, moves \in PlaySuggestions :
        /\ pc = "play"
        /\ plays(side) < MaxPlays
        /\ inbox[side] = << >>
        /\ Len(games[side].queue) >= config.next_queue_size
        /\ inbox' = [inbox EXCEPT ![side] = <<Suggestion(moves)>>]
        /\ UNCHANGED <<falling, config, games, event_queue, current, running, pc, winner, bots,
                       sent, played, lag>>

\* the state after a call of play_suggestion that returned result
PlayResult(side, result) ==
    /\ inbox' = [inbox EXCEPT ![side] = Tail(@)]
    /\ games' = [games EXCEPT ![side] = result.game]
    /\ played' = [played EXCEPT ![side] = result.played]
    /\ pc' = IF result.panic THEN "panic" ELSE pc
    /\ sent' = [sent EXCEPT ![side] = IF result.played # << >> THEN Append(@, "play") ELSE @]
    /\ UNCHANGED <<falling, config, event_queue, current, running, winner, bots, lag>>

\* game.play_suggestion(moves, config)
PlayMove ==
    \E side \in Side :
        /\ pc = "play"
        /\ inbox[side] # << >>
        /\ PlayResult(side, play_suggestion(games[side], Head(inbox[side]).moves, config))

\* game.refill_queue(config.next_queue_size, ...): a new_piece frame is
\* written for each piece drawn
PlayRefill ==
    \E side \in Side :
        /\ pc = "play"
        /\ Len(games[side].queue) < config.next_queue_size
        /\ \E draws \in refill_draws(games[side], config.next_queue_size, PlayDraws) :
               /\ games' = [games EXCEPT ![side] =
                               refill_queue(@, config.next_queue_size, draws).game]
               /\ sent' = [sent EXCEPT ![side] =
                              @ \o new_piece_frames(
                                  refill_queue(games[side], config.next_queue_size,
                                               draws).drawn)]
        /\ UNCHANGED <<falling, config, event_queue, current, running, pc, winner, bots, inbox,
                       played, lag>>

PlayNext == PlaySuggest \/ PlayMove \/ PlayRefill

PlaySpec == PlayInit /\ [][PlayNext]_vars

(***************************************************************************)
(* The match between two moves of a game: moves that clear lines and send  *)
(* garbage, and the events that follow them                                *)
(***************************************************************************)

\* the games of these matches: those of PlayGames outside a combo
AttackGames ==
    {g \in PlayGames(2) : g.combo = 0 /\ ~g.back_to_back}

\* both sides are about to be asked for their next move
AttackInit ==
    /\ config \in Configs
    /\ games \in {[side \in Side |-> g] : g \in AttackGames}
    /\ event_queue = {Event(side, 1, RequestMove) : side \in Side}
    /\ current = 0
    /\ running = TRUE
    /\ pc = "loop"
    /\ winner = << >>
    /\ bots = [side \in Side |-> "idle"]
    /\ inbox = [side \in Side |-> << >>]
    /\ sent = [side \in Side |-> <<start_msg(games[side])>>]
    /\ played = [side \in Side |-> << >>]
    /\ lag = 0
    /\ falling = << >>

\* a bot answers its first suggest request with one of PlaySuggestions
BotPlays ==
    \E side \in Side, moves \in PlaySuggestions :
        /\ plays(side) < MaxPlays
        /\ lag + latency(side) <= MaxLag
        /\ lag' = lag + latency(side)
        /\ BotReply(side, Suggestion(moves))

AttackNext ==
    \/ DispatchRequestMove
    \/ PollWait
    \/ PollTimeout
    \/ PollSuggestion
    \/ DispatchSendGarbage
    \/ DispatchCheckGarbage
    \/ Drain
    \/ BotPlays

AttackSpec == AttackInit /\ [][AttackNext]_vars

(***************************************************************************)
(* The garbage exchange: the SendGarbage and CheckGarbage arms of battle() *)
(* on games with pending garbage                                           *)
(***************************************************************************)

\* pending garbage queues at virtual time 2 (the entries are in the order of
\* their deposit times, none later than 2 + delays.garbage) and the amounts of
\* the attacks
PendingQueues ==
    {<< >>, <<Garbage(6, 3)>>, <<Garbage(2, 2), Garbage(4, 3)>>, <<Garbage(1, 1)>>}

Attacks == {1, 4, 7}

\* a match at virtual time 2 in which one side has an attack on its way while
\* both sides wait for their CheckGarbage
GarbageInit ==
    /\ config \in Configs
    /\ games \in [Side -> {[refill_queue(Game_new(0), config.next_queue_size, d).game
                               EXCEPT !.garbage_queue = q]
                              : d \in refill_draws(Game_new(0), config.next_queue_size, BagDraws),
                                q \in PendingQueues}]
    /\ \E side \in Side, amount \in Attacks, time \in {2, 3} :
           event_queue = {Event(side, time, SendGarbage(amount)),
                          Event(opponent(side), 3, CheckGarbage),
                          Event(side, 4, CheckGarbage)}
    /\ current = 2
    /\ running = TRUE
    /\ pc = "loop"
    /\ winner = << >>
    /\ bots = [side \in Side |-> "idle"]
    /\ inbox = [side \in Side |-> << >>]
    /\ sent = [side \in Side |-> <<start_msg(games[side])>>]
    /\ played = [side \in Side |-> << >>]
    /\ lag = 0
    /\ falling = << >>

GarbageNext == DispatchSendGarbage \/ DispatchCheckGarbage

GarbageSpec == GarbageInit /\ [][GarbageNext]_vars

(***************************************************************************)
(* The garbage exchange under every way of choosing the hole               *)
(***************************************************************************)

\* the rule sets: the hole is redrawn at the first row of an attack or not,
\* and at the other rows never, sometimes or always
HoleConfigs ==
    {[Config(TRUE, TRUE) EXCEPT !.garbage.change_on_attack = change,
                                !.garbage.messiness = messiness]
        : change \in BOOLEAN, messiness \in {0, 50, 100}}

\* the hole columns Game::new may have drawn
HoleStarts == {0, 9}

\* the pending queues and the attacks of these matches
HoleQueues == {<< >>, <<Garbage(2, 2), Garbage(2, 3)>>}

HoleAttacks == {1, 3}

\* the boards of the two sides: an empty one, and one of 38 garbage rows with
\* the hole in the hole column of its side, two rows under the top of the grid
HoleBoard(side, hole) == IF side = "Left" THEN Board_default ELSE GarbageBoard(38, hole)

\* a match at virtual time 2 in which one side has an attack on its way while
\* both sides wait for their CheckGarbage
HoleInit ==
    /\ config \in HoleConfigs
    /\ games \in [Side -> {[refill_queue(Game_new(h), config.next_queue_size, d).game
                               EXCEPT !.garbage_queue = q, !.board = HoleBoard(side, h)]
                              : d \in refill_draws(Game_new(0), config.next_queue_size, BagDraws),
                                q \in HoleQueues, h \in HoleStarts, side \in Side}]
    /\ \A side \in Side : games[side].board = HoleBoard(side, games[side].garbage_hole)
    /\ \E side \in Side, amount \in HoleAttacks :
           event_queue = {Event(side, 2, SendGarbage(amount)),
                          Event(opponent(side), 3, CheckGarbage),
                          Event(side, 4, CheckGarbage)}
    /\ current = 2
    /\ running = TRUE
    /\ pc = "loop"
    /\ winner = << >>
    /\ bots = [side \in Side |-> "idle"]
    /\ inbox = [side \in Side |-> << >>]
    /\ sent = [side \in Side |-> <<start_msg(games[side])>>]
    /\ played = [side \in Side |-> << >>]
    /\ lag = 0
    /\ falling = << >>

HoleNext == DispatchSendGarbage \/ DispatchCheckGarbage

HoleSpec == HoleInit /\ [][HoleNext]_vars

(***************************************************************************)
(* The match on boards that reach the spawn area                           *)
(***************************************************************************)

\* the candidate lists of the bots of such a match: the I laid flat on the
\* stack where it spawns (on a stack up to row 19 and on one up to row 17),
\* or candidates no game accepts
TopPlan == <<Move("I", "North", 4, 20, "None"), Move("I", "North", 4, 18, "None")>>

TopPlans == {TopPlan, BadPlan}

\* the start of battle() with games whose boards are stacks of TopBoards
TopOutInit ==
    /\ config \in Configs
    /\ games \in [Side -> {refill_queue([Game_new(0) EXCEPT !.board = board],
                                         config.next_queue_size, d).game
                               : board \in TopBoards,
                                 d \in refill_draws(Game_new(0), config.next_queue_size,
                                                    BagDraws)}]
    /\ event_queue = {Event(side, config.delays.start, RequestMove) : side \in Side}
    /\ current = 0
    /\ running = TRUE
    /\ pc = "loop"
    /\ winner = << >>
    /\ bots = [side \in Side |-> "idle"]
    /\ inbox = [side \in Side |-> << >>]
    /\ sent = [side \in Side |-> <<start_msg(games[side])>>]
    /\ played = [side \in Side |-> << >>]
    /\ lag = 0
    /\ falling = << >>

\* a bot answers the suggest request with one of TopPlans
BotTops ==
    \E side \in Side, moves \in TopPlans :
        /\ lag + latency(side) <= MaxLag
        /\ lag' = lag + latency(side)
        /\ BotReply(side, Suggestion(moves))

TopOutNext ==
    \/ DispatchRequestMove
    \/ PollWait
    \/ PollTimeout
    \/ PollSuggestion
    \/ DispatchCheckGarbage
    \/ Drain
    \/ BotTops

TopOutSpec == TopOutInit /\ [][TopOutNext]_vars

(***************************************************************************)
(* The piece supply of one game: the queue loses the pieces a move takes   *)
(* and refill_queue tops it up from the bag                                *)
(***************************************************************************)

\* bounds of the exploration: the pieces drawn in the game, and the values
\* gen_range(0..bag.len()) returns
MaxDraws == 14
BagIndices == {0, 1}

\* the game whose supply is followed
BagSide == "Left"

\* the pieces drawn so far in the game of side: the queue of the start frame
\* and one piece for every frame after it
bag_drawn(side) == config.next_queue_size + Len(sent[side]) - 1

\* a game after the initial refill, the start frame written
BagInit ==
    /\ config = Config(TRUE, TRUE)
    /\ games \in {[side \in Side |-> refill_queue(Game_new(0), config.next_queue_size, d).game]
                     : d \in refill_draws(Game_new(0), config.next_queue_size, BagIndices)}
    /\ event_queue = {}
    /\ current = 0
    /\ running = TRUE
    /\ pc = "bag"
    /\ winner = << >>
    /\ bots = [side \in Side |-> "idle"]
    /\ inbox = [side \in Side |-> << >>]
    /\ sent = [side \in Side |-> <<start_msg(games[side])>>]
    /\ played = [side \in Side |-> << >>]
    /\ lag = 0
    /\ falling = << >>

\* game.refill_queue(config.next_queue_size, ...) on the game a move has
\* taken pieces from: a new_piece frame is written for each piece drawn
Refilled(side, taken) ==
    \E draws \in refill_draws(taken, config.next_queue_size, BagIndices) :
        /\ games' = [games EXCEPT ![side] =
                        refill_queue(taken, config.next_queue_size, draws).game]
        /\ sent' = [sent EXCEPT ![side] =
                       @ \o new_piece_frames(
                           refill_queue(taken, config.next_queue_size, draws).drawn)]

\* an accepted move that places the piece at the head of the queue, or
\* exchanges it with the piece held: self.queue.pop_front(), then the refill
BagPlayNext ==
    /\ pc = "bag"
    /\ bag_drawn(BagSide) + 1 <= MaxDraws
    /\ Refilled(BagSide, [games[BagSide] EXCEPT !.queue = Tail(@)])
    /\ UNCHANGED <<falling, config, event_queue, current, running, pc, winner, bots, inbox,
                   played, lag>>

\* an accepted move that places queue[1] while nothing is held: both pieces
\* leave the queue and queue[0] is held, then the refill
BagPlaySwap ==
    /\ pc = "bag"
    /\ games[BagSide].hold = NoPiece
    /\ bag_drawn(BagSide) + 2 <= MaxDraws
    /\ Refilled(BagSide, [games[BagSide] EXCEPT !.queue = Tail(Tail(@)),
                                                !.hold = games[BagSide].queue[1]])
    /\ UNCHANGED <<falling, config, event_queue, current, running, pc, winner, bots, inbox,
                   played, lag>>

BagNext == BagPlayNext \/ BagPlaySwap

BagSpec == BagInit /\ [][BagNext]_vars

(***************************************************************************)
(* Single searches of Game::movegen: the paths of the falling piece        *)
(***************************************************************************)

\* bound of the exploration: the cost (base + softdrop) of a path
MaxCost == 8

\* a game whose board is one of MovegenBoards, at a call of
\* self.movegen(piece, ..) for its current piece: the path is at the spawn
\* location with cost 0, or there is no path when the piece cannot spawn
MovegenInit ==
    /\ config = Config(TRUE, TRUE)
    /\ \E board \in MovegenBoards, piece \in MovegenPieces :
           /\ games = [side \in Side |->
                          [Game_new(0) EXCEPT !.board = board, !.queue = <<piece, piece>>]]
           /\ falling = [i \in DOMAIN movegen_start(board, piece) |->
                             QueueMove(movegen_start(board, piece)[i], "None", Cost(0, 0))]
    /\ event_queue = {}
    /\ current = 0
    /\ running = TRUE
    /\ pc = "movegen"
    /\ winner = << >>
    /\ bots = [side \in Side |-> "idle"]
    /\ inbox = [side \in Side |-> << >>]
    /\ sent = [side \in Side |-> <<start_msg(games[side])>>]
    /\ played = [side \in Side |-> << >>]
    /\ lag = 0

\* self.board of the search
movegen_board == games["Left"].board

\* the path goes on with the QueueMove handed to reach()
Reach(loc, spin, cost) ==
    /\ cost.base + cost.softdrop <= MaxCost
    /\ falling' = <<QueueMove(loc, spin, cost)>>
    /\ UNCHANGED <<config, games, event_queue, current, running, pc, winner, bots,
                   inbox, sent, played, lag>>

\* the cost of a node reached by a shift or a rotation
moved_cost(mv) == Cost(mv.cost.base + mv.cost.softdrop + config.delays.movement, 0)

\* move left
MoveLeft ==
    /\ pc = "movegen"
    /\ falling # << >>
    /\ LET mv == falling[1]
           loc == [mv.loc EXCEPT !.x = mv.loc.x - 1]
       IN  /\ ~obstructed(loc, movegen_board)
           /\ Reach(loc, "None", moved_cost(mv))

\* move right
MoveRight ==
    /\ pc = "movegen"
    /\ falling # << >>
    /\ LET mv == falling[1]
           loc == [mv.loc EXCEPT !.x = mv.loc.x + 1]
       IN  /\ ~obstructed(loc, movegen_board)
           /\ Reach(loc, "None", moved_cost(mv))

\* the rotation loops: the path goes on at the first kick candidate that is
\* not obstructed, with the spin check_spin gives it for its index
Kicked(mv, cands) ==
    \E i \in 1..Len(cands) :
        /\ ~obstructed(cands[i], movegen_board)
        /\ \A j \in 1..(i - 1) : obstructed(cands[j], movegen_board)
        /\ Reach(cands[i], check_spin(movegen_board, cands[i], i - 1), moved_cost(mv))

\* rotate cw
RotateCw ==
    /\ pc = "movegen"
    /\ falling # << >>
    /\ Kicked(falling[1], rotate(falling[1].loc, cw(falling[1].loc.rotation)))

\* rotate ccw
RotateCcw ==
    /\ pc = "movegen"
    /\ falling # << >>
    /\ Kicked(falling[1], rotate(falling[1].loc, ccw(falling[1].loc.rotation)))

\* move down, when the location below is free
MoveDown ==
    /\ pc = "movegen"
    /\ falling # << >>
    /\ LET mv == falling[1]
           loc == [mv.loc EXCEPT !.y = mv.loc.y - 1]
       IN  /\ ~obstructed(loc, movegen_board)
           /\ Reach(loc, "None", Cost(mv.cost.base, mv.cost.softdrop + config.delays.softdrop))

MovegenNext == MoveLeft \/ MoveRight \/ RotateCw \/ RotateCcw \/ MoveDown

MovegenSpec == MovegenInit /\ [][MovegenNext]_vars

(***************************************************************************)
(* Search steps next to the edges of the grid: the reads of Board::get     *)
(* around the floor, the walls and the top row                             *)
(***************************************************************************)

\* the nodes the steps start from: a board and the centre of the piece, over
\* one garbage row next to either wall, and over 37 garbage rows, two rows
\* under the top of the grid
ProbeStarts ==
    {<<GarbageBoard(1, 0), 1, 1>>, <<GarbageBoard(1, 0), 8, 1>>,
     <<GarbageBoard(37, 0), 1, 38>>, <<GarbageBoard(37, 0), 8, 38>>}

\* a node of a search: a piece at a location that is not obstructed
ProbeInit ==
    /\ config = Config(TRUE, TRUE)
    /\ \E start \in ProbeStarts, piece \in MovegenPieces :
           /\ ~obstructed(PieceLocation(piece, "North", start[2], start[3]), start[1])
           /\ games = [side \in Side |->
                          [Game_new(0) EXCEPT !.board = start[1], !.queue = <<piece, piece>>]]
           /\ falling = <<QueueMove(PieceLocation(piece, "North", start[2], start[3]),
                                    "None", Cost(0, 0))>>
    /\ event_queue = {}
    /\ current = 0
    /\ running = TRUE
    /\ pc = "movegen"
    /\ winner = << >>
    /\ bots = [side \in Side |-> "idle"]
    /\ inbox = [side \in Side |-> << >>]
    /\ sent = [side \in Side |-> <<start_msg(games[side])>>]
    /\ played = [side \in Side |-> << >>]
    /\ lag = 0

ProbeSpec == ProbeInit /\ [][MovegenNext]_vars

(***************************************************************************)
(* Properties                                                              *)
(***************************************************************************)

\* the step pops event e and dispatches it
Dispatched(e) ==
    /\ pc = "loop"
    /\ running
    /\ e \in poppable(event_queue)
    /\ e \notin event_queue'

\* the step pops the PollMove event e and dispatches it
Polled(e) == e.event.kind = "PollMove" /\ Dispatched(e)

\* poll_message() of side returns a suggestion
SuggestionRead(side) ==
    /\ bots[side] # "exited"
    /\ inbox[side] # << >>
    /\ Head(inbox[side]).type = "suggestion"

\* C1: when a PollMove of side S gets a channel error, or a suggestion of
\* which play_suggestion accepts no candidate, the loop stops with the
\* opponent of S as the winner; and the winner changes only in the dispatch
\* of a PollMove, to the opponent of the polled side.
C1_WinnerIsOpponentOfPolled ==
    [][/\ \A e \in event_queue :
              (/\ Polled(e)
               /\ \/ bots[e.side] = "exited"
                  \/ SuggestionRead(e.side) /\ played'[e.side] = << >> /\ pc' # "panic")
                  => (winner' = <<opponent(e.side)>> /\ pc' \in {"drain", "done"})
       /\ winner' # winner
              => \E e \in event_queue : Polled(e) /\ winner' = <<opponent(e.side)>>]_vars

\* C1 witness: the first poll of a side (one quantum after the start) read a
\* suggestion of which nothing was accepted, and the other side has won
C1_Witness ==
    \E s \in Side :
        /\ winner = <<opponent(s)>>
        /\ bots[s] = "idle"
        /\ played[s] = << >>
        /\ current = config.delays.start + 1

\* C2: a PollMove of side S dispatched more than 500 ms of virtual time after
\* the request, at which no suggestion is read, ends the match with the
\* opponent of S as the winner.
C2_LateRequestLoses ==
    [][\A e \in event_queue :
           (/\ Polled(e)
            /\ (current' - e.event.arg) * config.time_quanta_ms > 500
            /\ ~SuggestionRead(e.side))
               => (winner' = <<opponent(e.side)>> /\ pc' \in {"drain", "done"})]_vars

\* C3: when the driver takes a step with the flag cleared and an event to pop,
\* it returns no winner: the event is popped and nothing else changes (no
\* frame written, no message read, no game changed), and the drain is not
\* entered.
C3_CancelReturnsNone ==
    [][(/\ pc = "loop"
        /\ ~running
        /\ event_queue # {}
        /\ event_queue' # event_queue \/ pc' # pc)
           => (/\ pc' = "done"
               /\ winner' = << >>
               /\ \E e \in poppable(event_queue) : event_queue' = event_queue \ {e}
               /\ UNCHANGED <<games, sent, inbox, bots, current, played>>)]_vars

\* C3 witness: the match has returned no winner after a cancellation while a
\* bot was asked, and the PollMove of that bot is still in the heap, undrained
C3_Witness ==
    /\ pc = "done"
    /\ ~running
    /\ winner = << >>
    /\ \E e \in event_queue : e.event.kind = "PollMove" /\ bots[e.side] = "asked"

\* the step is a call of play_suggestion for side
Called(side) ==
    /\ pc = "play"
    /\ inbox[side] # << >>
    /\ inbox'[side] = Tail(inbox[side])

\* the swap piece of a game: the hold, or queue[1] when the hold is empty
swap_piece(game) == IF game.hold # NoPiece THEN game.hold ELSE game.queue[2]

\* candidate mv qualifies on game: its piece is the current piece or the swap
\* piece and (canonical location, spin) is a key of the movegen map of its
\* piece on the board of the game
Qualifies(game, mv, cfg) ==
    /\ PieceLocation_try_from(mv) # << >>
    /\ Spin_try_from(mv) # << >>
    /\ mv.kind \in {game.queue[1], swap_piece(game)}
    /\ <<canonical_form(PieceLocation_try_from(mv)[1]), mv.spin>>
           \in DOMAIN Game_movegen(game.board, mv.kind,
                                   cfg.delays.movement, cfg.delays.softdrop)

\* the location a played move was placed at
PlacedAt(p) == canonical_form(PieceLocation_try_from(p.mv)[1])

\* C4: play_suggestion accepts the first candidate of the list that
\* qualifies, with the base cost of its key as placement_delay, and places it
\* on the board as it was; with no qualifying candidate it returns no move
\* and leaves the game as it was.
C4_FirstQualifyingCandidate ==
    [][\A s \in Side :
           Called(s) =>
               LET suggested == Head(inbox[s]).moves
                   qualifying == {i \in 1..Len(suggested) :
                                     Qualifies(games[s], suggested[i], config)}
               IN  IF qualifying = {}
                   THEN played'[s] = << >> /\ games'[s] = games[s]
                   ELSE /\ played'[s] # << >>
                        /\ played'[s][1].mv = suggested[Min(qualifying)]
                        /\ played'[s][1].placement_delay =
                               Game_movegen(games[s].board, played'[s][1].mv.kind,
                                            config.delays.movement, config.delays.softdrop)
                                   [<<PlacedAt(played'[s][1]), played'[s][1].mv.spin>>]
                        /\ games'[s].board =
                               place(games[s].board, PlacedAt(played'[s][1])).board]_vars

\* C4 witness: the third candidate of a list was accepted, after an unknown
\* piece and a location in mid-air, with the cost of its key (4 quanta)
C4_Witness ==
    \E s \in Side :
        /\ played[s] # << >>
        /\ played[s][1].mv = Move("I", "West", 0, 1, "None")
        /\ played[s][1].placement_delay = 4

\* C5: an accepted placement of the current piece pops one piece and leaves
\* the hold as it was; a placement of another piece (the swap piece) pops the
\* front, pops once more when the hold was empty, and holds the former
\* current piece.
C5_QueueAndHoldUpdate ==
    [][\A s \in Side :
           (Called(s) /\ played'[s] # << >>) =>
               IF played'[s][1].mv.kind = games[s].queue[1]
               THEN /\ games'[s].queue = Tail(games[s].queue)
                    /\ games'[s].hold = games[s].hold
               ELSE /\ games'[s].queue = IF games[s].hold = NoPiece
                                         THEN Tail(Tail(games[s].queue))
                                         ELSE Tail(games[s].queue)
                    /\ games'[s].hold = games[s].queue[1]]_vars

\* the attack of a clear of cleared rows by a placement with spin on game,
\* before the perfect clear rule
Attack(game, cfg, spin, cleared) ==
    (CASE spin = "None" -> cfg.garbage.clear[cleared]
       [] spin = "Mini" -> cfg.garbage.mini[cleared]
       [] spin = "Full" -> cfg.garbage.spin[cleared])
    + (IF game.back_to_back /\ (spin # "None" \/ cleared = 4)
       THEN cfg.garbage.back_to_back ELSE 0)
    + cfg.garbage.combo[Min({game.combo, Len(cfg.garbage.combo) - 1}) + 1]

\* C6: the attack computation of an accepted placement.  Without a clear it
\* sends nothing, has no clear delay, resets combo and keeps back_to_back; with
\* cleared rows it sends the table entry plus the back-to-back bonus (flag set
\* and hard clear) plus the combo entry, a perfect clear adding or replacing
\* by pc[cleared-1], waits delays.pc or delays.clear, sets back_to_back to
\* is_hard and adds 1 to combo.
C6_AttackComputation ==
    [][\A s \in Side :
           (Called(s) /\ played'[s] # << >>) =>
               LET p == played'[s][1]
                   placed == place(games[s].board, PlacedAt(p))
                   cleared == placed.cleared
                   perfect == is_pc(placed.board)
               IN  /\ p.clear = (cleared > 0)
                   /\ IF cleared = 0
                      THEN /\ p.garbage_sent = 0
                           /\ p.clear_delay = 0
                           /\ games'[s].combo = 0
                           /\ games'[s].back_to_back = games[s].back_to_back
                      ELSE /\ p.garbage_sent =
                                  IF ~perfect
                                  THEN Attack(games[s], config, p.mv.spin, cleared)
                                  ELSE IF config.garbage.pc_additive
                                  THEN Attack(games[s], config, p.mv.spin, cleared)
                                           + config.garbage.pc[cleared]
                                  ELSE config.garbage.pc[cleared]
                           /\ p.clear_delay = IF perfect THEN config.delays.pc[cleared]
                                              ELSE config.delays.clear[cleared]
                           /\ games'[s].back_to_back = (p.mv.spin # "None" \/ cleared = 4)
                           /\ games'[s].combo = games[s].combo + 1]_vars

\* C6 witness: a four-row clear that is no perfect clear, played with the
\* back-to-back flag set at combo 3: 4 rows + 1 bonus + 1 combo row are sent
C6_Witness ==
    \E s \in Side :
        /\ played[s] # << >>
        /\ played[s][1].garbage_sent = 6
        /\ played[s][1].clear_delay = 3
        /\ games[s].combo = 4
        /\ games[s].back_to_back

\* the number of garbage cells of a board
GarbageCells(board) ==
    Cardinality({c \in (0..(BoardWidth - 1)) \X (0..(BoardHeight - 1)) :
                    board[c[2]][c[1]] = "Garbage"})

\* the sum of the amounts of a pending queue
Pending(garbage_queue) ==
    LET sum[i \in 0..Len(garbage_queue)] ==
            IF i = 0 THEN 0 ELSE sum[i - 1] + garbage_queue[i].amount
    IN  sum[Len(garbage_queue)]

\* C7: the garbage cells of a board grow only while a CheckGarbage of its
\* side is dispatched, by the entries at the head of the pending queue, whose
\* deposit times have all come; and an entry is appended to a pending queue
\* only while a SendGarbage of the other side is dispatched, with the deposit
\* time current + delays.garbage.
C7_GarbageOnlyAtCheckGarbage ==
    [][\A s \in Side :
           /\ (/\ games'[s].board # games[s].board
               /\ GarbageCells(games'[s].board) > GarbageCells(games[s].board))
                  => \E e \in event_queue :
                         /\ Dispatched(e)
                         /\ e.event.kind = "CheckGarbage"
                         /\ e.side = s
                         /\ \E k \in 1..Len(games[s].garbage_queue) :
                                /\ games'[s].garbage_queue =
                                       SubSeq(games[s].garbage_queue, k + 1,
                                              Len(games[s].garbage_queue))
                                /\ \A i \in 1..k :
                                       games[s].garbage_queue[i].add_time <= current'
           /\ Len(games'[s].garbage_queue) > Len(games[s].garbage_queue)
                  => \E e \in event_queue :
                         /\ Dispatched(e)
                         /\ e.event.kind = "SendGarbage"
                         /\ e.side = opponent(s)
                         /\ \E amount \in 1..e.event.arg :
                                games'[s].garbage_queue =
                                    Append(games[s].garbage_queue,
                                           Garbage(amount, current' + config.delays.garbage))]_vars

\* C7 witness: a side whose board has a garbage row while its match goes on
C7_Witness ==
    \E s \in Side :
        /\ games[s].board[0][0] = "Garbage"
        /\ games[s].garbage_queue = << >>
        /\ pc = "loop"

\* the pending queue own after amount rows of it were cancelled from the
\* head: the entries the amount covers are gone and the next one has lost
\* what was left of the amount
CancelledFromHead(own, amount) ==
    LET covered == {k \in 0..Len(own) : Pending(SubSeq(own, 1, k)) <= amount}
        k == CHOOSE n \in covered : \A m \in covered : m <= n
    IN  IF k = Len(own) THEN << >>
        ELSE <<[own[k + 1] EXCEPT
                   !.amount = @ - (amount - Pending(SubSeq(own, 1, k)))]>>
                 \o SubSeq(own, k + 2, Len(own))

\* C8: with countering a SendGarbage(amount) cancels the pending garbage of
\* its side from the head and appends what is left of the amount, when that
\* is not 0, to the pending queue of the opponent with the deposit time
\* current + delays.garbage; without countering the pending queue of its side
\* stays and the whole amount is appended.
C8_SendGarbageCounters ==
    [][\A e \in event_queue :
           (Dispatched(e) /\ e.event.kind = "SendGarbage") =>
               LET own == games[e.side].garbage_queue
                   theirs == games[opponent(e.side)].garbage_queue
                   left == IF ~config.garbage.countering THEN e.event.arg
                           ELSE IF e.event.arg > Pending(own)
                           THEN e.event.arg - Pending(own)
                           ELSE 0
               IN  /\ games'[e.side].garbage_queue =
                          IF config.garbage.countering
                          THEN CancelledFromHead(own, e.event.arg)
                          ELSE own
                   /\ games'[opponent(e.side)].garbage_queue =
                          IF left = 0 THEN theirs
                          ELSE Append(theirs,
                                      Garbage(left, current' + config.delays.garbage))]_vars

\* C8 witness: 6 pending rows met by an attack of 4 rows: 2 rows stay pending
\* and the opponent, whose pending queue was empty, has received nothing
C8_Witness ==
    \E s \in Side :
        /\ config.garbage.countering
        /\ games[s].garbage_queue = <<Garbage(2, 3)>>
        /\ games[opponent(s)].garbage_queue = << >>
        /\ \A e \in event_queue : e.event.kind # "SendGarbage"
        /\ current = 2

\* what a SendGarbage dispatch has left of its amount: the amount of the
\* entry the opponent's queue has grown by, or 0
LeftOver(side) ==
    IF Len(games'[opponent(side)].garbage_queue) > Len(games[opponent(side)].garbage_queue)
    THEN games'[opponent(side)].garbage_queue
             [Len(games'[opponent(side)].garbage_queue)].amount
    ELSE 0

\* the least of two numbers
Least(a, b) == IF a <= b THEN a ELSE b

\* C9: counter_garbage(amount) takes min(amount, total pending) off the
\* pending total and off the amount; what stays of the queue is a tail of it in
\* the same order with the same deposit times, only its first entry may be
\* smaller than before, and no entry is 0 or less; afterwards the amount is 0
\* or the queue is empty.
C9_CounterGarbageExact ==
    [][\A e \in event_queue :
           (Dispatched(e) /\ e.event.kind = "SendGarbage" /\ config.garbage.countering) =>
               LET own == games[e.side].garbage_queue
                   after == games'[e.side].garbage_queue
                   popped == Len(own) - Len(after)
                   cancelled == Least(e.event.arg, Pending(own))
               IN  /\ popped >= 0
                   /\ Pending(after) = Pending(own) - cancelled
                   /\ LeftOver(e.side) = e.event.arg - cancelled
                   /\ \A j \in 1..Len(after) :
                          /\ after[j].add_time = own[popped + j].add_time
                          /\ after[j].amount > 0
                          /\ after[j].amount <= own[popped + j].amount
                          /\ j > 1 => after[j].amount = own[popped + j].amount
                   /\ LeftOver(e.side) = 0 \/ after = << >>]_vars

\* C9 witness: an attack of 4 rows has cancelled the only pending row of its
\* side, and the 3 rows left of it are pending on the opponent
C9_Witness ==
    \E s \in Side :
        /\ config.garbage.countering
        /\ games[s].garbage_queue = << >>
        /\ games[opponent(s)].garbage_queue # << >>
        /\ games[opponent(s)].garbage_queue
               [Len(games[opponent(s)].garbage_queue)].amount = 3

\* C10: with garbage.blocking, a placement that clears a row schedules no
\* CheckGarbage for its side but the RequestMove at current + placement_delay
\* + clear_delay + delays.spawn; and while that RequestMove waits no step
\* changes the board of the side.
C10_BlockingSkipsCheckGarbage ==
    [][\A s \in Side :
           /\ (/\ \E e \in event_queue : Polled(e) /\ e.side = s
               /\ SuggestionRead(s)
               /\ played'[s] # << >>
               /\ played'[s][1].clear
               /\ config.garbage.blocking)
                  => /\ \A e \in event_queue' :
                            e.side = s => e.event.kind \notin {"CheckGarbage", "PollMove"}
                     /\ Event(s, current' + played'[s][1].placement_delay
                                     + played'[s][1].clear_delay + config.delays.spawn,
                              RequestMove) \in event_queue'
           /\ (/\ config.garbage.blocking
               /\ played[s] # << >>
               /\ played[s][1].clear
               /\ \E e \in event_queue : e.side = s /\ e.event.kind = "RequestMove")
                  => games'[s].board = games[s].board]_vars

\* C10 witness: with blocking, a side that cleared a row has been asked for
\* its next move while garbage whose deposit time has come is still pending
\* and its board holds no garbage
C10_Witness ==
    \E s \in Side :
        /\ config.garbage.blocking
        /\ played[s] # << >>
        /\ played[s][1].clear
        /\ games[s].garbage_queue # << >>
        /\ games[s].garbage_queue[1].add_time <= current
        /\ games[s].board[0][0] # "Garbage"
        /\ \E e \in event_queue : e.side = s /\ e.event.kind = "PollMove"

\* the step is an iteration of the main loop that pops event e and goes on to
\* the match on its kind (the flag is set)
Popped(e) ==
    /\ pc = "loop"
    /\ running
    /\ e \in event_queue
    /\ e \notin event_queue'

\* C11: the event an iteration of the main loop dispatches has the smallest
\* scheduled time of the pending events and, among the pending events of that
\* time, the lowest kind priority (SendGarbage 0, CheckGarbage 1, RequestMove
\* 2, PollMove 3); the order of two events is the same when their sides are
\* exchanged.
C11_DispatchOrder ==
    [][\A e \in event_queue :
           Popped(e) =>
               /\ \A o \in event_queue :
                      /\ e.time <= o.time
                      /\ e.time = o.time => priority(e.event) <= priority(o.event)
                      /\ Event_lt(e, o) = Event_lt([e EXCEPT !.side = opponent(@)], o)
                      /\ Event_lt(o, e) = Event_lt([o EXCEPT !.side = opponent(@)], e)
               /\ priority(e.event) =
                      CASE e.event.kind = "SendGarbage" -> 0
                        [] e.event.kind = "CheckGarbage" -> 1
                        [] e.event.kind = "RequestMove" -> 2
                        [] e.event.kind = "PollMove" -> 3]_vars

\* C11 witness: without blocking, the CheckGarbage of a side was dispatched
\* at the time at which the PollMove of the other side is due, and that
\* PollMove is still pending
C11_Witness ==
    /\ pc = "loop"
    /\ ~config.garbage.blocking
    /\ \E e \in event_queue, o \in event_queue :
           /\ e.event.kind = "PollMove"
           /\ e.time = current
           /\ o.side # e.side
           /\ o.event.kind = "RequestMove"
           /\ o.time = current + config.delays.spawn

\* C12: the events of one scheduled time are dispatched in the order of their
\* kinds: a dispatch after which the loop goes on leaves no event pending
\* that has the scheduled time of the dispatched event and a lower priority
\* number (the loop would dispatch it, or another such event, next: after an
\* event of the same time and a higher priority number).
C12_KindsInPriorityOrder ==
    [][\A e \in event_queue :
           (Popped(e) /\ pc' = "loop") =>
               \A o \in event_queue' :
                   o.time = e.time => priority(o.event) >= priority(e.event)]_vars

\* the path of the search is at a location it cannot move down from: the
\* search makes it an entry of the moves map
Locked(mv) == obstructed([mv.loc EXCEPT !.y = mv.loc.y - 1], movegen_board)

\* the moves map of the search: self.movegen(piece, ..) for the current piece
movegen_moves ==
    Game_movegen(movegen_board, games["Left"].queue[1],
                 config.delays.movement, config.delays.softdrop)

\* C13: every key (L, S) of the map movegen returns is a location that is
\* not obstructed on the board, whose four cells are inside the grid, that
\* cannot move down, and that place writes without leaving the array.
C13_MovegenSound ==
    pc = "movegen" =>
        \A k \in DOMAIN movegen_moves :
            /\ k[1].piece = games["Left"].queue[1]
            /\ k[2] \in Spin
            /\ ~obstructed(k[1], movegen_board)
            /\ \A i \in 1..4 :
                   /\ PieceLocation_cells(k[1])[i][1] \in 0..9
                   /\ PieceLocation_cells(k[1])[i][2] \in 0..39
            /\ obstructed([k[1] EXCEPT !.y = @ - 1], movegen_board)
            /\ ~place_panics(k[1])

\* C13 witness: a path of the J has turned under the overhang to a location it
\* cannot move down from, and that location is a key of the map
C13_Witness ==
    /\ pc = "movegen"
    /\ movegen_board = OverhangBoard
    /\ falling # << >>
    /\ falling[1].loc = PieceLocation("J", "West", 4, 15)
    /\ Locked(falling[1])
    /\ <<falling[1].loc, "None">> \in DOMAIN movegen_moves

\* C14: the value the map stores for a key is the least base cost of the
\* paths from the spawn location that end at a location they cannot move
\* down from: no path that ends locked, at cost (base, softdrop), at a
\* location with canonical form L and spin S has a base below the value stored
\* for (L, S).
C14_MovegenOptimal ==
    (pc = "movegen" /\ falling # << >> /\ Locked(falling[1])) =>
        /\ <<canonical_form(falling[1].loc), falling[1].spin>> \in DOMAIN movegen_moves
        /\ movegen_moves[<<canonical_form(falling[1].loc), falling[1].spin>>]
               <= falling[1].cost.base

\* the spawn location of a piece at height y
Spawn(piece, y) == PieceLocation(piece, "North", 4, y)

\* piece can spawn neither at y = 19 nor at y = 20 on board
Blocked(board, piece) ==
    obstructed(Spawn(piece, 19), board) /\ obstructed(Spawn(piece, 20), board)

\* where a piece that is free at y = 19 comes to rest when it only moves down
Landing(board, piece) ==
    Spawn(piece, CHOOSE y \in 0..19 :
                     /\ obstructed(Spawn(piece, y - 1), board)
                     /\ \A z \in y..19 : ~obstructed(Spawn(piece, z), board))

\* every candidate list of the model
AllPlans == Suggestions \cup PlaySuggestions \cup TopPlans \cup {DropPlan}

\* C15: movegen starts at (piece, North, 4, 19) when that location is free
\* (where the piece lands from there is a key of cost 0), at y = 20 when only
\* y = 19 is obstructed (that location is a key of cost 0), and returns the
\* empty map when both are obstructed.  When the map is empty for the current
\* piece and for the swap piece, play_suggestion returns no move for every
\* candidate list and leaves the game as it is, and the poll that reads a
\* suggestion ends the match with the opponent as the winner.
C15_SpawnAndTopOut ==
    [][\A s \in Side :
           /\ \A piece \in {games[s].queue[1], swap_piece(games[s])} :
                  LET moves == Game_movegen(games[s].board, piece,
                                            config.delays.movement, config.delays.softdrop)
                      start == IF ~obstructed(Spawn(piece, 19), games[s].board)
                               THEN Landing(games[s].board, piece)
                               ELSE Spawn(piece, 20)
                  IN  IF Blocked(games[s].board, piece)
                      THEN moves = << >>
                      ELSE /\ <<canonical_form(start), "None">> \in DOMAIN moves
                           /\ moves[<<canonical_form(start), "None">>] = 0
           /\ (/\ Blocked(games[s].board, games[s].queue[1])
               /\ Blocked(games[s].board, swap_piece(games[s])))
                  => /\ \A moves \in AllPlans :
                            /\ play_suggestion(games[s], moves, config).played = << >>
                            /\ play_suggestion(games[s], moves, config).game = games[s]
                     /\ (SuggestionRead(s) /\ \E e \in event_queue : Polled(e) /\ e.side = s)
                            => /\ played'[s] = << >>
                               /\ games' = games
                               /\ winner' = <<opponent(s)>>
                               /\ pc' \in {"drain", "done"}]_vars

\* C15 witness: a side whose stack reaches row 20 has lost at its first poll,
\* which read the plan that the other stacks accept
C15_Witness ==
    \E s \in Side :
        /\ games[s].board = GarbageBoard(21, 0)
        /\ winner = <<opponent(s)>>
        /\ played[s] = << >>
        /\ bots[s] = "idle"
        /\ inbox[s] = << >>
        /\ played[opponent(s)] # << >>

\* the cell (x, y) of the board of the search is occupied; the walls and the
\* floor count as occupied
Occupied(x, y) ==
    \/ x < 0 \/ x > 9 \/ y < 0 \/ y > 39
    \/ movegen_board[y][x] # "Empty"

\* the direction the stem of a T points to
Pointing(rotation) ==
    CASE rotation = "North" -> <<0, 1>>
      [] rotation = "East" -> <<1, 0>>
      [] rotation = "South" -> <<0, -1>>
      [] rotation = "West" -> <<-1, 0>>

\* the occupied ones among the two diagonal corners of the T centre on the
\* side given by the direction dir
Corners(loc, dir) ==
    Cardinality({d \in {-1, 1} \X {-1, 1} :
                    /\ d[1] * dir[1] + d[2] * dir[2] = 1
                    /\ Occupied(loc.x + d[1], loc.y + d[2])})

\* the corners on the pointing side of a T location and on the opposite side
Front(loc) == Corners(loc, Pointing(loc.rotation))

Back(loc) == Corners(loc, <<-Pointing(loc.rotation)[1], -Pointing(loc.rotation)[2]>>)

\* the classification by the number of occupied corners of the pair called
\* mini, of the other pair, and the kick index
Classified(mini, norm, kick) ==
    IF mini + norm < 3 THEN "None"
    ELSE IF mini < 2 /\ kick # 4 THEN "Mini"
    ELSE "Full"

\* the step is a rotation of a T
TurnedT ==
    /\ pc = "movegen"
    /\ falling # << >>
    /\ falling' # << >>
    /\ falling[1].loc.piece = "T"
    /\ falling'[1].loc.rotation # falling[1].loc.rotation

\* the index, from 0, of the kick candidate the rotation step has accepted
KickIndex ==
    (CHOOSE i \in 1..5 :
         rotate(falling[1].loc, falling'[1].loc.rotation)[i] = falling'[1].loc) - 1

\* C16 as stated: the corners on the side opposite to the pointing side of
\* the T are the mini corners; a rotated T location with fewer than 3 occupied
\* corners has spin None, else Mini when fewer than 2 mini corners are
\* occupied and the kick index is not 4, else Full.
C16_SpinByOppositeCorners ==
    [][TurnedT =>
           falling'[1].spin =
               Classified(Back(falling'[1].loc), Front(falling'[1].loc), KickIndex)]_vars

\* C16 as amended: the mini corners are the two corners on the pointing side
\* of the T; the rest of the classification is as stated.
C16_SpinByPointingCorners ==
    [][TurnedT =>
           falling'[1].spin =
               Classified(Front(falling'[1].loc), Back(falling'[1].loc), KickIndex)]_vars

\* C16 witness: the T has turned into the slot of TripleBoard by the last
\* kick, with one occupied corner on its pointing side: the spin is Full
C16_Witness ==
    /\ pc = "movegen"
    /\ movegen_board = TripleBoard
    /\ falling # << >>
    /\ falling[1].loc = PieceLocation("T", "West", 6, 15)
    /\ falling[1].spin = "Full"
    /\ falling[1].cost.softdrop = 0
    /\ Front(falling[1].loc) = 1
    /\ Back(falling[1].loc) = 2

\* the set of board cells a location covers
Covered(loc) == {PieceLocation_cells(loc)[i] : i \in 1..4}

\* the locations of the same piece around loc: every rotation, the centre up
\* to two cells away in x and in y (no two locations further apart share a cell
\* set, a footprint being at most four cells long)
Around(loc) ==
    {PieceLocation(loc.piece, rotation, loc.x + dx, loc.y + dy) :
        rotation \in Rotation, dx \in -2..2, dy \in -2..2}

\* the locations other than loc that cover the cells loc covers
Twins(loc) == {other \in Around(loc) : other # loc /\ Covered(other) = Covered(loc)}

\* C17: canonical soundness: whenever the falling piece of a search is at a
\* location L1, every location L2 of the same piece that covers the same four
\* board cells has the canonical form of L1
C17_CanonicalSound ==
    (pc = "movegen" /\ falling # << >>) =>
        \A other \in Around(falling[1].loc) :
            Covered(other) = Covered(falling[1].loc) =>
                canonical_form(other) = canonical_form(falling[1].loc)

\* C17 witness: the falling piece is an O turned South, a location three
\* other locations share their cells with, none of them canonical but one
C17_Witness ==
    /\ pc = "movegen"
    /\ falling # << >>
    /\ falling[1].loc.piece = "O"
    /\ falling[1].loc.rotation = "South"
    /\ Cardinality(Twins(falling[1].loc)) = 3
    /\ canonical_form(falling[1].loc) \in Twins(falling[1].loc)

\* the board with the four cells of loc written and no row dropped yet
Written(board, loc) ==
    [y \in 0..(BoardHeight - 1) |->
        [x \in 0..(BoardWidth - 1) |->
            IF <<x, y>> \in Covered(loc) THEN loc.piece ELSE board[y][x]]]

\* the rows of a board without an empty cell, and those without a filled one
FullRows(board) ==
    {y \in 0..(BoardHeight - 1) : \A x \in 0..(BoardWidth - 1) : board[y][x] # "Empty"}

EmptyRows(board) == {y \in 0..(BoardHeight - 1) : board[y] = EmptyRow}

\* every empty row is strictly above every non-empty row: the row above an
\* empty row is empty
Compact(board) ==
    \A y \in 0..(BoardHeight - 2) : board[y] = EmptyRow => board[y + 1] = EmptyRow

\* C18: board compaction: a board made of garbage deposits on the empty board
\* has no full row and no empty row under a filled one; when play_suggestion
\* accepts a placement on it, place returns the number of rows the written
\* piece filled, the board after it has no full row and no empty row under a
\* non-empty one, and is_pc holds of it exactly when the whole field is empty.
C18_BoardCompaction ==
    [][\A s \in Side :
           (Called(s) /\ played'[s] # << >>) =>
               \A loc \in {PlacedAt(played'[s][1])} :
               \A written \in {Written(games[s].board, loc)} :
               \A after \in {games'[s].board} :
                   /\ FullRows(games[s].board) = {}
                   /\ Compact(games[s].board)
                   /\ place(games[s].board, loc).cleared = Cardinality(FullRows(written))
                   /\ played'[s][1].clear = (FullRows(written) # {})
                   /\ FullRows(after) = {}
                   /\ Compact(after)
                   /\ Cardinality(EmptyRows(after))
                          = Cardinality(EmptyRows(written)) + Cardinality(FullRows(written))
                   /\ is_pc(after) <=> (EmptyRows(after) = 0..(BoardHeight - 1))]_vars

\* C18 witness: the I placed in the hole of the stack of 18 garbage rows has
\* cleared four of them: the 14 rows left lie at the bottom, 26 empty rows
\* above them, and the board is no perfect clear
C18_Witness ==
    \E s \in Side :
        /\ pc = "play"
        /\ played[s] # << >>
        /\ played[s][1].mv.kind = "I"
        /\ played[s][1].clear
        /\ EmptyRows(games[s].board) = 14..(BoardHeight - 1)
        /\ ~is_pc(games[s].board)

\* the queue a start frame carries and the piece a new_piece frame carries
StartQueue(frame) ==
    CHOOSE q \in [1..config.next_queue_size -> Piece] : frame = "start" \o pieces_text(q)

PieceOf(frame) == CHOOSE p \in Piece : frame = NewPiece(p)

\* the pieces refill_queue has drawn in the game of side since its start, in
\* order, read from the frames written: the queue of the start frame, then the
\* new_piece frames
Drawn(side) ==
    StartQueue(sent[side][1])
        \o [i \in 1..(Len(sent[side]) - 1) |-> PieceOf(sent[side][i + 1])]

\* the pieces of d from position from to position to
Group(d, from, to) == {d[i] : i \in from..to}

\* C19: bag fairness: the pieces drawn since the start of the game form
\* consecutive groups of 7 that hold each of the seven kinds once (the group
\* being drawn holds no kind twice); between operations the bag holds no kind
\* twice and is not empty: it holds the kinds the group being drawn still
\* lacks, all seven when the group is complete.
C19_BagFairness ==
    pc = "bag" =>
        \A d \in {Drawn(BagSide)}, bag \in {games[BagSide].bag} :
            /\ \A k \in 0..((Len(d) \div 7) - 1) : Group(d, 7 * k + 1, 7 * k + 7) = Piece
            /\ Cardinality(Group(d, 7 * (Len(d) \div 7) + 1, Len(d))) = Len(d) % 7
            /\ bag # << >>
            /\ Cardinality({bag[i] : i \in 1..Len(bag)}) = Len(bag)
            /\ {bag[i] : i \in 1..Len(bag)}
                   = Piece \ Group(d, 7 * (Len(d) \div 7) + 1, Len(d))

\* C19 witness: fourteen pieces are drawn, two groups of seven in different
\* orders, and the bag is whole again
C19_Witness ==
    /\ pc = "bag"
    /\ bag_drawn(BagSide) = 14
    /\ Len(games[BagSide].bag) = 7
    /\ \E i \in 1..7 : Drawn(BagSide)[i] # Drawn(BagSide)[i + 7]

\* the step dispatches a PollMove of side s that reads a suggestion of which
\* play_suggestion accepts a candidate
Accepted(s) ==
    /\ \E e \in event_queue : e.side = s /\ Polled(e)
    /\ SuggestionRead(s)
    /\ played'[s] # << >>
    /\ pc' # "panic"

\* the pieces of queue from position from on
From(queue, from) == SubSeq(queue, from, Len(queue))

\* C20: wherever the main loop starts an iteration, the queue of each side
\* holds exactly next_queue_size pieces; the step that accepts a placement
\* takes one or two pieces from the head of the queue, appends the pieces
\* drawn up to next_queue_size, and writes to the bot of that side the play
\* frame and then one new_piece frame for each piece appended, in the order
\* in which they were appended.
C20_QueueRefilledAndStreamed ==
    [][/\ (pc = "loop") =>
              \A s \in Side : Len(games[s].queue) = config.next_queue_size
       /\ (pc' = "loop") =>
              \A s \in Side : Len(games'[s].queue) = config.next_queue_size
       /\ \A s \in Side :
              Accepted(s) =>
                  \E taken \in {1, 2} :
                      \A kept \in {From(games[s].queue, taken + 1)} :
                      \A appended \in {From(games'[s].queue, Len(kept) + 1)} :
                          /\ SubSeq(games'[s].queue, 1, Len(kept)) = kept
                          /\ Len(games'[s].queue) = config.next_queue_size
                          /\ Len(appended) = taken
                          /\ sent'[s] = sent[s] \o <<"play">>
                                            \o [i \in 1..taken |-> NewPiece(appended[i])]]_vars

\* C20 witness: the S was placed from the second place of the queue while
\* nothing was held: the Z went to the hold, two pieces were drawn, and the
\* frames new_piece J and new_piece L follow the play frame in that order
C20_Witness ==
    \E s \in Side :
        /\ pc = "loop"
        /\ played[s] # << >>
        /\ played[s][1].mv.kind = "S"
        /\ games[s].hold = "Z"
        /\ games[s].queue = <<"J", "L">>
        /\ Len(sent[s]) >= 3
        /\ From(sent[s], Len(sent[s]) - 2) = <<"play", NewPiece("J"), NewPiece("L")>>

\* the step dispatches a CheckGarbage of side s
Deposited(s) ==
    \E e \in event_queue : Dispatched(e) /\ e.event.kind = "CheckGarbage" /\ e.side = s

\* the column of the empty cell of row y of a board
HoleColumn(board, y) == CHOOSE x \in 0..(BoardWidth - 1) : board[y][x] = "Empty"

\* the hole of row j (from 1) of the n rows a deposit has put under the board:
\* the first row deposited lies highest
DepositedHole(board, n, j) == HoleColumn(board, n - j)

\* C21: the hole column of a side is always one of the ten columns; when
\* change_on_attack is set, the first row of every block a CheckGarbage
\* deposits has its hole in a column other than the hole column just before
\* the block (the hole of the side for the first block, the hole of the last
\* row of the block before for the others); when every row redraws the hole
\* (messiness 1), every row has its hole in a column other than that of the
\* row before; and the hole of the side after the deposit is the hole of the
\* last row.
C21_HoleChanges ==
    [][\A s \in Side :
           /\ games[s].garbage_hole \in 0..(BoardWidth - 1)
           /\ games'[s].garbage_hole \in 0..(BoardWidth - 1)
           /\ Deposited(s) =>
                  \A q \in {games[s].garbage_queue} :
                  \A k \in {Len(q) - Len(games'[s].garbage_queue)} :
                  \A n \in {Pending(SubSeq(q, 1, k))} :
                      /\ config.garbage.change_on_attack =>
                             \A i \in 1..k :
                                 \A above \in {Pending(SubSeq(q, 1, i - 1))} :
                                     DepositedHole(games'[s].board, n, above + 1)
                                         # (IF above = 0 THEN games[s].garbage_hole
                                            ELSE DepositedHole(games'[s].board, n, above))
                      /\ config.garbage.messiness = 100 =>
                             \A j \in 1..n :
                                 DepositedHole(games'[s].board, n, j)
                                     # (IF j = 1 THEN games[s].garbage_hole
                                        ELSE DepositedHole(games'[s].board, n, j - 1))
                      /\ n > 0 => games'[s].garbage_hole = HoleColumn(games'[s].board, 0)
                      /\ n = 0 => games'[s].garbage_hole = games[s].garbage_hole]_vars

\* C21 witness: a side whose hole was column 9 has had two blocks deposited
\* under change_on_attack, the second with its hole in column 9 again after a
\* first with its hole elsewhere
C21_Witness ==
    \E s \in Side :
        /\ pc = "loop"
        /\ config.garbage.change_on_attack
        /\ config.garbage.messiness = 0
        /\ games[s].garbage_queue = << >>
        /\ games[s].garbage_hole = 9
        /\ games[s].board[3][9] # "Empty"
        /\ games[s].board[3][0] = "Garbage"
        /\ games[s].board[2] = games[s].board[3]
        /\ games[s].board[1][9] = "Empty"
        /\ games[s].board[0][9] = "Empty"

\* the cells read around the falling piece: up to three columns and rows away
\* from its centre
Probes ==
    {<<x, y>> : x \in (falling[1].loc.x - 3)..(falling[1].loc.x + 3),
                y \in (falling[1].loc.y - 3)..(falling[1].loc.y + 3)}

InGrid(x, y) == x \in 0..(BoardWidth - 1) /\ y \in 0..(BoardHeight - 1)

\* C22 as stated: a read outside the columns or under the floor reports
\* occupied, a read inside the grid the stored cell, and a read above row 39
\* within the columns reports not occupied
C22_OpenAboveTopRow ==
    (pc = "movegen" /\ falling # << >>) =>
        \A c \in Probes :
            get(movegen_board, c[1], c[2])
                = IF InGrid(c[1], c[2]) THEN movegen_board[c[2]][c[1]] # "Empty"
                  ELSE (c[1] \notin 0..(BoardWidth - 1) \/ c[2] < 0)

\* C22: a read inside the grid reports the stored cell, and every read
\* outside it reports occupied, also above row 39; so no step of a search
\* takes a piece to a cell outside the grid
C22_ClosedAllAround ==
    (pc = "movegen" /\ falling # << >>) =>
        /\ \A c \in Probes :
               get(movegen_board, c[1], c[2])
                   = IF InGrid(c[1], c[2]) THEN movegen_board[c[2]][c[1]] # "Empty"
                     ELSE TRUE
        /\ \A c \in Covered(falling[1].loc) :
               InGrid(c[1], c[2]) /\ movegen_board[c[2]][c[1]] = "Empty"

\* C22 witness: a T has been turned under the top of the grid and has a cell
\* in row 39, with reads above the top row, beside a wall and in the garbage
\* under it
C22_Witness ==
    /\ pc = "movegen"
    /\ falling # << >>
    /\ falling[1].loc.piece = "T"
    /\ falling[1].loc.rotation # "North"
    /\ falling[1].cost.base > 0
    /\ \E c \in Covered(falling[1].loc) : c[2] = BoardHeight - 1
    /\ \E c \in Probes : c[2] >= BoardHeight /\ c[1] \in 0..(BoardWidth - 1)
    /\ \E c \in Probes : c[1] < 0
    /\ \E c \in Probes : InGrid(c[1], c[2]) /\ movegen_board[c[2]][c[1]] = "Garbage"

\* after is before with the garbage rows of holes put under it: every row
\* has moved up by the number of holes, the rows that pass the top are gone,
\* and the rows put under are garbage but for one empty cell, the first hole
\* in the highest of them
ShiftedBy(before, after, holes) ==
    /\ \A y \in 0..(BoardHeight - 1) :
           y + Len(holes) <= BoardHeight - 1 => after[y + Len(holes)] = before[y]
    /\ \A y \in 0..(BoardHeight - 1) :
           y < Len(holes) =>
               /\ Cardinality({x \in 0..(BoardWidth - 1) : after[y][x] = "Empty"}) = 1
               /\ after[y][holes[Len(holes) - y]] = "Empty"
               /\ \A x \in 0..(BoardWidth - 1) : after[y][x] \in {"Empty", "Garbage"}
    /\ holes = << >> => after = before

\* C23: whatever rows the CheckGarbage events that are pending deposit when
\* they come due, the board after the deposit is the board before it with the
\* rows of the hole sequence put under it: every row y is at y + n, rows that
\* would pass row 39 are gone, row y of the bottom n rows is garbage with one
\* empty cell in column holes[n-1-y], and with no hole the board is as it was.
C23_GarbageRowsPutUnder ==
    pc = "loop" =>
        \A e \in event_queue :
            e.event.kind = "CheckGarbage" =>
                \A before \in {games[e.side].board} :
                \A out \in Game_add_garbage(games[e.side], due(e), config, HoleDraws) :
                    ShiftedBy(before, out.game.board, out.added)

\* C23 witness: four rows in two blocks with different holes were put under
\* the board of 38 rows: its top two rows are gone, and the row that was
\* the lowest is row 4
C23_Witness ==
    /\ pc = "loop"
    /\ games["Right"].garbage_queue = << >>
    /\ games["Right"].board[39] # EmptyRow
    /\ games["Right"].board[39] = games["Right"].board[4]
    /\ games["Right"].board[4] # games["Right"].board[3]
    /\ games["Right"].board[3] = games["Right"].board[2]
    /\ games["Right"].board[2] # games["Right"].board[1]
    /\ games["Right"].board[1] = games["Right"].board[0]

\* the number of entries at the head of a pending queue whose deposit time is
\* now or earlier: the longest prefix of due entries
DueCount(garbage_queue, now) ==
    CHOOSE k \in 0..Len(garbage_queue) :
        /\ \A i \in 1..k : garbage_queue[i].add_time <= now
        /\ k < Len(garbage_queue) => garbage_queue[k + 1].add_time > now

\* a row of garbage: one empty cell, garbage in the others
GarbageRow(row) ==
    /\ Cardinality({x \in 0..(BoardWidth - 1) : row[x] = "Empty"}) = 1
    /\ \A x \in 0..(BoardWidth - 1) : row[x] \in {"Empty", "Garbage"}

\* C24: the CheckGarbage of a side at time now takes from the head of its
\* pending queue the longest prefix of entries with a deposit time of now or
\* earlier and leaves the first later entry and all behind it as they are;
\* the board gets as many garbage rows under it as the amounts taken add up
\* to; and the hole sequence returned is empty (no start frame follows)
\* exactly when no entry was due.
C24_DuePrefixDeposited ==
    [][\A s \in Side :
           Deposited(s) =>
               \A q \in {games[s].garbage_queue} :
               \A k \in {DueCount(q, current')} :
               \A n \in {Pending(SubSeq(q, 1, k))} :
                   /\ games'[s].garbage_queue = SubSeq(q, k + 1, Len(q))
                   /\ \A y \in 0..(BoardHeight - 1) :
                          /\ y < n => GarbageRow(games'[s].board[y])
                          /\ y + n <= BoardHeight - 1 =>
                                 games'[s].board[y + n] = games[s].board[y]
                   /\ (n = 0) <=> (k = 0)
                   /\ (sent'[s] = sent[s]) <=> (k = 0)
                   /\ k > 0 => sent'[s] = Append(sent[s], start_msg(games'[s]))]_vars

\* C24 witness: a deposit has put rows under a board and has left an entry
\* in the pending queue whose time has not come
C24_Witness ==
    \E s \in Side :
        /\ pc = "loop"
        /\ GarbageRow(games[s].board[0])
        /\ Len(sent[s]) = 2
        /\ games[s].garbage_queue # << >>
        /\ games[s].garbage_queue[1].add_time > current

\* the number of lines the falling piece clears when it is placed where it is
ClearedBy(mv) == place(movegen_board, canonical_form(mv.loc)).cleared

\* C25: only a T carries a spin.  Every key of the map movegen returns with
\* spin Mini or Full is a location of a T; a step of the search that leaves
\* the piece with a spin is a rotation of a T (a shift or a soft drop leaves
\* it with None); and a location with a spin that locks clears at most 3
\* lines, which is inside the mini and the spin attack tables.
C25_OnlyTSpins ==
    /\ [](pc = "movegen" =>
             \A k \in DOMAIN movegen_moves : k[2] # "None" => k[1].piece = "T")
    /\ [][(falling' # << >> /\ falling # << >>) =>
              /\ falling'[1].loc.rotation = falling[1].loc.rotation =>
                     falling'[1].spin = "None"
              /\ falling'[1].spin # "None" =>
                     /\ falling'[1].loc.piece = "T"
                     /\ falling'[1].loc.rotation # falling[1].loc.rotation
                     /\ \A cleared \in {ClearedBy(falling'[1])} :
                            /\ cleared <= 3
                            /\ cleared <= Len(config.garbage.mini)
                            /\ cleared <= Len(config.garbage.spin)]_vars

\* C25 witness: a T has turned into a location with a spin where it locks
\* and clears lines, a key of the map with that spin
C25_Witness ==
    /\ pc = "movegen"
    /\ falling # << >>
    /\ falling[1].loc.piece = "T"
    /\ falling[1].spin # "None"
    /\ Locked(falling[1])
    /\ ClearedBy(falling[1]) > 0
    /\ <<canonical_form(falling[1].loc), falling[1].spin>> \in DOMAIN movegen_moves

\* a turn of the drain loop: one event leaves the heap and nothing is
\* dispatched (no game, frame, winner or time changes); a message is taken
\* from the channel of a side exactly when the event is a PollMove of that
\* side whose process runs; the function returns Some(winner) after the last
DrainTurn ==
    (pc = "drain" /\ event_queue' # event_queue) =>
        \E e \in event_queue :
            /\ event_queue' = event_queue \ {e}
            /\ UNCHANGED <<games, sent, winner, current, played, bots>>
            /\ \A s \in Side :
                   inbox'[s] = IF e.event.kind = "PollMove" /\ e.side = s
                                   /\ bots[s] # "exited"
                               THEN Tail(inbox[s]) ELSE inbox[s]
            /\ pc' = IF event_queue' = {} THEN "done" ELSE "drain"
            /\ winner # << >>

\* the turns of the drain loop are as DrainTurn says
DrainRemoves == [][DrainTurn]_vars

\* C26: once a winner is determined every event left in the heap is removed
\* without being dispatched, one blocking read is made on a side's channel
\* for each pending PollMove of that side and none for a side without one,
\* and battle() then returns the winner.
C26_DrainedAndReturned ==
    /\ [][DrainTurn]_vars
    /\ (pc = "drain") ~> (pc = "done" /\ winner # << >> /\ event_queue = {})

\* poll_message() of side returns a message that is not a suggestion
OtherRead(side) ==
    /\ bots[side] # "exited"
    /\ inbox[side] # << >>
    /\ Head(inbox[side]).type # "suggestion"

\* C27: a PollMove that reads a message that is not a suggestion ignores it:
\* the message is taken from the channel, no game changes, no frame is sent,
\* no winner is set, the loop goes on, and no event is pushed (the heap only
\* loses the PollMove).
C27_OtherMessageIgnored ==
    [][\A e \in event_queue :
           (Polled(e) /\ OtherRead(e.side)) =>
               /\ UNCHANGED <<games, sent, winner, pc, played, bots>>
               /\ event_queue' = event_queue \ {e}
               /\ inbox' = [inbox EXCEPT ![e.side] = Tail(@)]]_vars

\* C27 witness: a side was asked for a move, its info message has been read
\* by its poll, and the match goes on with no event of that side and no
\* winner
C27_Witness ==
    \E s \in Side :
        /\ pc = "loop"
        /\ winner = << >>
        /\ bots[s] = "idle"
        /\ inbox[s] = << >>
        /\ played[s] = << >>
        /\ sent[s][Len(sent[s])] = "suggest"
        /\ \A e \in event_queue : e.side # s
        /\ event_queue # {}

\* the number of garbage rows of a board
GarbageRows(board) == Cardinality({y \in 0..(BoardHeight - 1) : GarbageRow(board[y])})

\* C28: the dispatch of a CheckGarbage of a side sends the side's bot a start
\* frame of the game as it is after the deposit when the deposit has added
\* at least one garbage row to the board, and no frame when it has added
\* none; in both cases the only change to the heap is that the CheckGarbage
\* is replaced by one RequestMove of that side at current + delays.spawn.
C28_StartFrameIffRowsAdded ==
    [][\A e \in event_queue :
           (Dispatched(e) /\ e.event.kind = "CheckGarbage") =>
               /\ sent'[e.side] =
                      IF GarbageRows(games'[e.side].board) > GarbageRows(games[e.side].board)
                      THEN Append(sent[e.side], start_msg(games'[e.side]))
                      ELSE sent[e.side]
               /\ sent'[opponent(e.side)] = sent[opponent(e.side)]
               /\ Event(e.side, current' + config.delays.spawn, RequestMove) \notin event_queue
               /\ event_queue' =
                      (event_queue \ {e})
                          \cup {Event(e.side, current' + config.delays.spawn, RequestMove)}]_vars

\* C28 witness: one side has had rows added and has been sent a second start
\* frame, the other has had its check with nothing due and has only its
\* first frame, and both have their RequestMove pending
C28_Witness ==
    \E s \in Side :
        /\ pc = "loop"
        /\ GarbageRows(games[s].board) > 0
        /\ Len(sent[s]) = 2
        /\ sent[s][2] = start_msg(games[s])
        /\ GarbageRows(games[opponent(s)].board) = 0
        /\ Len(sent[opponent(s)]) = 1
        /\ \A side \in Side :
               \E e \in event_queue : e.side = side /\ e.event.kind = "RequestMove"

\* the frame tells the bot of a new piece
IsNewPiece(frame) == \E piece \in Piece : frame = NewPiece(piece)

\* C29: after a move of side s is accepted at poll time current, one
\* CheckGarbage of s is pushed at current + placement_delay + clear_delay,
\* unless the move cleared lines under blocking, and then none is; a
\* SendGarbage(garbage_sent) of s is pushed at current + placement_delay when
\* garbage_sent > 0 and none otherwise; the move played is one of the
\* candidates read, and its play frame is written before the new_piece frames
\* of the refill, which are the only frames after it.
C29_FollowUpOfAcceptedMove ==
    [][\A s \in Side :
           Accepted(s) =>
               \A p \in {played'[s][1]} :
               \A new \in {event_queue' \ event_queue} :
                   /\ {e \in new : e.event.kind = "CheckGarbage"} =
                          IF p.clear /\ config.garbage.blocking THEN {}
                          ELSE {Event(s, current' + p.placement_delay + p.clear_delay,
                                      CheckGarbage)}
                   /\ {e \in new : e.event.kind = "SendGarbage"} =
                          IF p.garbage_sent > 0
                          THEN {Event(s, current' + p.placement_delay,
                                      SendGarbage(p.garbage_sent))}
                          ELSE {}
                   /\ \E i \in DOMAIN Head(inbox[s]).moves : Head(inbox[s]).moves[i] = p.mv
                   /\ Len(sent'[s]) > Len(sent[s])
                   /\ SubSeq(sent'[s], 1, Len(sent[s])) = sent[s]
                   /\ sent'[s][Len(sent[s]) + 1] = "play"
                   /\ \A i \in (Len(sent[s]) + 2)..Len(sent'[s]) : IsNewPiece(sent'[s][i])]_vars

\* C29 witness: without blocking a side has played a move that cleared lines
\* and sends garbage: its CheckGarbage and its SendGarbage are pending, and
\* the last frames written to its bot are the play frame and a new_piece
C29_Witness ==
    \E s \in Side :
        /\ pc = "loop"
        /\ ~config.garbage.blocking
        /\ played[s] # << >>
        /\ played[s][1].clear
        /\ played[s][1].garbage_sent > 0
        /\ Event(s, current + played[s][1].placement_delay + played[s][1].clear_delay,
                 CheckGarbage) \in event_queue
        /\ Event(s, current + played[s][1].placement_delay,
                 SendGarbage(played[s][1].garbage_sent)) \in event_queue
        /\ \E i \in DOMAIN sent[s] :
               /\ sent[s][i] = "play"
               /\ i < Len(sent[s])
               /\ \A j \in (i + 1)..Len(sent[s]) : IsNewPiece(sent[s][j])

\* C30: the heap is never empty when the main loop pops it: wherever the
\* loop is about to start an iteration, with no winner determined and the
\* match not cancelled, at least one event is pending, whatever the bots
\* answer.
C30_QueueNeverEmpty ==
    (pc = "loop" /\ running /\ winner = << >>) => event_queue # {}

\* the pending events of side that stand for its turn: the request of a
\* move, the poll for the answer, the garbage check after the move
TurnEvents(side) ==
    {e \in event_queue :
        e.side = side /\ e.event.kind \in {"RequestMove", "PollMove", "CheckGarbage"}}

\* C31: each side has at most one outstanding move request: at most one of
\* its RequestMove, PollMove and CheckGarbage events is pending at any time,
\* and between any two suggest frames sent to a bot a play frame was sent to
\* it.
C31_OneRequestOutstanding ==
    \A s \in Side :
        /\ Cardinality(TurnEvents(s)) <= 1
        /\ \A i, j \in DOMAIN sent[s] :
               (i < j /\ sent[s][i] = "suggest" /\ sent[s][j] = "suggest") =>
                   \E k \in (i + 1)..(j - 1) : sent[s][k] = "play"

\* C31 witness: a bot has been asked for its second move and the poll for
\* the answer is the one pending event of its side's turn
C31_Witness ==
    \E s \in Side :
        /\ pc = "loop"
        /\ Cardinality({i \in DOMAIN sent[s] : sent[s][i] = "suggest"}) = 2
        /\ \E e \in TurnEvents(s) : e.event.kind = "PollMove"

\* the pending queue holds rows in every entry and is in the order of its
\* deposit times
InOrder(garbage_queue) ==
    /\ \A i \in DOMAIN garbage_queue : garbage_queue[i].amount > 0
    /\ \A i, j \in DOMAIN garbage_queue :
           i < j => garbage_queue[i].add_time <= garbage_queue[j].add_time

\* C32: in every state the pending queue of each side holds only entries
\* with amount > 0, with deposit times that do not decrease from head to
\* tail; the virtual time never decreases from one dispatch to the next and
\* is never below the scheduled time of the event dispatched; and after a
\* CheckGarbage no entry left in the queue of its side is due.
C32_PendingQueueInOrder ==
    /\ [](\A s \in Side : InOrder(games[s].garbage_queue))
    /\ [][/\ current' >= current
          /\ \A e \in event_queue :
                 Dispatched(e) =>
                     /\ current' >= e.time
                     /\ e.event.kind = "CheckGarbage" =>
                            \A i \in DOMAIN games'[e.side].garbage_queue :
                                games'[e.side].garbage_queue[i].add_time > current']_vars

\* C32 witness: an attack sent at time 3 stands at the tail of a pending
\* queue behind two entries of earlier deposit times
C32_Witness ==
    \E s \in Side :
        /\ pc = "loop"
        /\ Len(games[s].garbage_queue) = 3
        /\ games[s].garbage_queue[1].add_time = 2
        /\ games[s].garbage_queue[3].add_time = current + config.delays.garbage
        /\ current = 3

\* the rows a step takes from the pending queue of side
Taken(side) == Pending(games[side].garbage_queue) - Pending(games'[side].garbage_queue)

\* the garbage rows a step adds to the board of side
Laid(side) == GarbageRows(games'[side].board) - GarbageRows(games[side].board)

\* C33: garbage is conserved.  The amount of a SendGarbage of side A that is
\* dispatched is the rows cancelled from A's pending queue plus the rows
\* queued on side B (none cancelled without countering), and it changes no
\* board; the rows a CheckGarbage of B takes from B's pending queue are the
\* rows it lays on B's board, and it changes nothing of A; no other step
\* changes a pending queue or adds a garbage row to a board.  The totals of
\* a match are the sums of these steps.
C33_GarbageConserved ==
    [][/\ \A e \in event_queue :
              (Dispatched(e) /\ e.event.kind = "SendGarbage") =>
                  /\ Taken(e.side) >= 0
                  /\ Taken(opponent(e.side)) <= 0
                  /\ e.event.arg = Taken(e.side) - Taken(opponent(e.side))
                  /\ ~config.garbage.countering => Taken(e.side) = 0
                  /\ \A s \in Side : games'[s].board = games[s].board
       /\ \A e \in event_queue :
              (Dispatched(e) /\ e.event.kind = "CheckGarbage") =>
                  /\ Taken(e.side) >= 0
                  /\ Laid(e.side) = Taken(e.side)
                  /\ games'[opponent(e.side)] = games[opponent(e.side)]
       /\ (\A e \in event_queue :
               Dispatched(e) => e.event.kind \notin {"SendGarbage", "CheckGarbage"}) =>
              \A s \in Side : Taken(s) = 0 /\ Laid(s) <= 0]_vars

\* C33 witness: under countering an attack of 1 row has cancelled one of the
\* 6 rows pending on its own side and has queued nothing on the other
C33_Witness ==
    \E s \in Side :
        /\ pc = "loop"
        /\ config.garbage.countering
        /\ games[s].garbage_queue = <<Garbage(5, 3)>>
        /\ \A e \in event_queue : e.event.kind # "SendGarbage"

\* C34: canonical_form keeps the footprint: for the location of the falling
\* piece and every location of its piece around it, in every rotation, free
\* or not, the canonical form covers the same four cells as the location
\* itself, is obstructed on the board exactly when the location is, and
\* placing it writes the same cells.
C34_CanonicalKeepsFootprint ==
    (pc = "movegen" /\ falling # << >>) =>
        \A loc \in Around(falling[1].loc) \cup {falling[1].loc} :
            \A canon \in {canonical_form(loc)} :
                /\ Covered(canon) = Covered(loc)
                /\ canon.piece = loc.piece
                /\ obstructed(canon, movegen_board) = obstructed(loc, movegen_board)
                /\ (~obstructed(loc, movegen_board) /\ loc = falling[1].loc) =>
                       place(movegen_board, canon) = place(movegen_board, loc)

\* C34 witness: the falling piece is an I turned West, whose canonical form
\* is the East location one cell higher, and next to it lies a location of
\* the I that the board obstructs
C34_Witness ==
    /\ pc = "movegen"
    /\ falling # << >>
    /\ falling[1].loc.piece = "I"
    /\ falling[1].loc.rotation = "West"
    /\ canonical_form(falling[1].loc) =
           [falling[1].loc EXCEPT !.rotation = "East", !.y = falling[1].loc.y + 1]
    /\ \E loc \in Around(falling[1].loc) :
           /\ canonical_form(loc) # loc
           /\ obstructed(loc, movegen_board)

====
